---- MODULE Spec2Model ----
(***************************************************************************)
(* Model of the MessageBoard LED matrix sign (MessageBoard.ino): the frame *)
(* buffer display_buffer, the glyph and text drawing routines, and the     *)
(* animation engine start_animation / do_animation driven by the           *)
(* millisecond clock millis().                                             *)
(***************************************************************************)
EXTENDS Integers, Sequences, FiniteSets, TLC

\* ------------------------------------------------------------------------
\* Program constants
\* ------------------------------------------------------------------------
MATRIX_ROWS == 8
MATRIX_COLUMNS == 120
MATRIX_NUM_ZONES == MATRIX_COLUMNS \div 8
MATRIX_MAX_ZONE_INDEX == MATRIX_NUM_ZONES - 1

\* font8x5.h is not part of the sources at hand: the pitch is the one the
\* specification states (MAX_CHARS = 24 for 120 columns), the table index
\* base 0x1D is the one matrix_draw_chr subtracts.
FONT_PITCH == 5
FONT_FIRST_CHR == 32
FONT_LAST_CHR == 127
FONT_TABLE_BASE == 29
UNKNOWN_GLYPH == 127

MATRIX_MAX_CHRS == MATRIX_COLUMNS \div FONT_PITCH

DT_ALIGN_LEFT == 0
DT_ALIGN_CENTER == 1
DT_ALIGN_RIGHT == 2
DT_STYLE_NORMAL == 0
DT_STYLE_INVERSE == 1

DIRECTION_LEFT == 0
DIRECTION_RIGHT == 1
DIRECTION_UP == 2
DIRECTION_DOWN == 3

DEF_ANIM_RTN == 0
DEF_ANIM_SPEED == 5
DEF_PAUSE_INTERVAL == 20

\* unsigned int is 16 bits and unsigned long 32 bits on the ATmega32U4
UINT_MOD == 65536

Rows == 0 .. (MATRIX_ROWS - 1)
Zones == 0 .. MATRIX_MAX_ZONE_INDEX
Columns == 0 .. (MATRIX_COLUMNS - 1)

\* ------------------------------------------------------------------------
\* Byte and bit helpers (Arduino bitRead / bitWrite, byte truncation)
\* ------------------------------------------------------------------------
Pow2(n) == CASE n = 0 -> 1 [] n = 1 -> 2 [] n = 2 -> 4 [] n = 3 -> 8
             [] n = 4 -> 16 [] n = 5 -> 32 [] n = 6 -> 64 [] n = 7 -> 128

bitRead(x, n) == (x \div Pow2(n)) % 2

bitWrite(x, n, b) == x - bitRead(x, n) * Pow2(n) + (IF b # 0 THEN Pow2(n) ELSE 0)

ShiftRight1(x) == x \div 2

\* the result of << is stored back into a byte
ShiftLeft1(x) == (x * 2) % 256

\* An unsigned long is kept as its two 16-bit words, value = hi * 2^16 + lo,
\* so that all arithmetic is modulo 2^32.
ULong(n) == [hi |-> (n \div UINT_MOD) % UINT_MOD, lo |-> n % UINT_MOD]

ULongIsZero(a) == a.hi = 0 /\ a.lo = 0

\* Faulty variant of ULongAdd: the sum is not formed, as when the counter
\* behind millis() is not being advanced
ULongAdd_Frozen(a, d) == a

\* a + d for 0 <= d < 2^16
ULongAdd(a, d) ==
    [hi |-> (a.hi + ((a.lo + d) \div UINT_MOD)) % UINT_MOD, lo |-> (a.lo + d) % UINT_MOD]

\* a - b in unsigned long arithmetic
ULongSub(a, b) ==
    [hi |-> (a.hi - b.hi - (IF a.lo < b.lo THEN 1 ELSE 0)) % UINT_MOD,
     lo |-> (a.lo - b.lo) % UINT_MOD]

\* a > n for a number n below 2^31
ULongGT(a, n) ==
    \/ a.hi > n \div UINT_MOD
    \/ a.hi = n \div UINT_MOD /\ a.lo > n % UINT_MOD

\* ------------------------------------------------------------------------
\* Frame buffer operations
\* ------------------------------------------------------------------------
\* The bytes stored in display_buffer: the array holds evaluated bytes, so a
\* buffer value is fully evaluated before the next operation reads it.
Stored(buf) == IF buf = buf THEN buf ELSE buf

BlankBuffer == Stored([row \in Rows |-> [zone \in Zones |-> 0]])

matrix_fill_buffer(value) == Stored([row \in Rows |-> [zone \in Zones |-> value]])

getPixel(buf, column, row) == bitRead(buf[row][column \div 8], column % 8)

\* Faulty variant of matrix_draw_pixel: the pixel takes the lowest bit of
\* value instead of being set for every value other than 0
matrix_draw_pixel_LowBit(buf, column, row, value) ==
    IF column < 0 \/ column > MATRIX_COLUMNS - 1 \/ row < 0 \/ row > MATRIX_ROWS - 1
    THEN buf
    ELSE LET zone == column \div 8
             bit_index == column % 8
         IN  Stored([buf EXCEPT ![row][zone] = bitWrite(@, bit_index, value % 2)])

matrix_draw_pixel(buf, column, row, value) ==
    IF column < 0 \/ column > MATRIX_COLUMNS - 1 \/ row < 0 \/ row > MATRIX_ROWS - 1
    THEN buf
    ELSE LET zone == column \div 8
             bit_index == column % 8
         IN  Stored([buf EXCEPT ![row][zone] = bitWrite(@, bit_index, value)])

\* Faulty variant of RotateRowLeft: the edge byte t is not saved, so the last
\* zone receives bit 0 of zone 0 as it is after its own shift
RotateRowLeft_NoSavedEdge(r) ==
    [zone \in Zones |->
        bitWrite(ShiftRight1(r[zone]), 7,
                 IF zone < MATRIX_MAX_ZONE_INDEX THEN bitRead(r[zone + 1], 0)
                                                 ELSE bitRead(ShiftRight1(r[0]), 0))]

\* Each row is walked zone by zone in place.  Going left the loop ascends, so
\* zone+1 is still unshifted when its bit 0 is carried into bit 7 of zone;
\* the last zone receives the saved bit 0 of the original zone 0 (t).
RotateRowLeft(r) ==
    [zone \in Zones |->
        bitWrite(ShiftRight1(r[zone]), 7,
                 IF zone < MATRIX_MAX_ZONE_INDEX THEN bitRead(r[zone + 1], 0)
                                                 ELSE bitRead(r[0], 0))]

\* Going right the loop descends, so zone-1 is still unshifted when its bit 7
\* is carried into bit 0 of zone; zone 0 receives bit 7 of the original last
\* zone (t).
RotateRowRight(r) ==
    [zone \in Zones |->
        bitWrite(ShiftLeft1(r[zone]), 0,
                 IF zone > 0 THEN bitRead(r[zone - 1], 7)
                             ELSE bitRead(r[MATRIX_MAX_ZONE_INDEX], 7))]

\* a rotation that forgets the saved edge byte t, as matrix_shift_buffer does
RotateDropsCarry(buf, roll_dir) ==
    Stored([row \in Rows |->
        [zone \in Zones |->
            IF roll_dir = DIRECTION_LEFT
            THEN bitWrite(ShiftRight1(buf[row][zone]), 7,
                          IF zone < MATRIX_MAX_ZONE_INDEX
                          THEN bitRead(buf[row][zone + 1], 0) ELSE 0)
            ELSE bitWrite(ShiftLeft1(buf[row][zone]), 0,
                          IF zone > 0 THEN bitRead(buf[row][zone - 1], 7) ELSE 0)]])

matrix_rotate_buffer(buf, roll_dir) ==
    CASE roll_dir = DIRECTION_LEFT -> Stored([row \in Rows |-> RotateRowLeft(buf[row])])
      [] roll_dir = DIRECTION_RIGHT -> Stored([row \in Rows |-> RotateRowRight(buf[row])])
      [] OTHER -> buf

ShiftRowLeft(r) ==
    [zone \in Zones |->
        IF zone < MATRIX_MAX_ZONE_INDEX
        THEN bitWrite(ShiftRight1(r[zone]), 7, bitRead(r[zone + 1], 0))
        ELSE ShiftRight1(r[zone])]

\* Faulty variant of ShiftRowRight: every zone is shifted on its own, the bit
\* leaving a zone is not carried into the next one
ShiftRowRight_NoCarry(r) == [zone \in Zones |-> ShiftLeft1(r[zone])]

ShiftRowRight(r) ==
    [zone \in Zones |->
        IF zone > 0
        THEN bitWrite(ShiftLeft1(r[zone]), 0, bitRead(r[zone - 1], 7))
        ELSE ShiftLeft1(r[zone])]

\* Faulty variant of matrix_shift_buffer: the line pushed off one edge comes
\* back in at the opposite edge
matrix_shift_buffer_Wraps(buf, shift_dir) ==
    CASE shift_dir = DIRECTION_LEFT -> matrix_rotate_buffer(buf, DIRECTION_LEFT)
      [] shift_dir = DIRECTION_RIGHT -> matrix_rotate_buffer(buf, DIRECTION_RIGHT)
      [] shift_dir = DIRECTION_UP ->
            Stored([row \in Rows |-> buf[(row + 1) % MATRIX_ROWS]])
      [] shift_dir = DIRECTION_DOWN ->
            Stored([row \in Rows |-> buf[(row + MATRIX_ROWS - 1) % MATRIX_ROWS]])
      [] OTHER -> buf

\* UP ascends over the rows and DOWN descends, so the source row of every
\* copy still holds its old content.
matrix_shift_buffer(buf, shift_dir) ==
    CASE shift_dir = DIRECTION_LEFT -> Stored([row \in Rows |-> ShiftRowLeft(buf[row])])
      [] shift_dir = DIRECTION_RIGHT -> Stored([row \in Rows |-> ShiftRowRight(buf[row])])
      [] shift_dir = DIRECTION_UP ->
            Stored([row \in Rows |->
                       IF row < 7 THEN buf[row + 1] ELSE [zone \in Zones |-> 0]])
      [] shift_dir = DIRECTION_DOWN ->
            Stored([row \in Rows |->
                       IF row > 0 THEN buf[row - 1] ELSE [zone \in Zones |-> 0]])
      [] OTHER -> buf

\* ------------------------------------------------------------------------
\* Font table and glyph renderer
\* ------------------------------------------------------------------------
\* Column bytes of the glyph at table index idx (bit r of a byte is row r).
\* The table itself lives in font8x5.h; 'H', 'I' and the unknown glyph are
\* given 5x7 shapes, every other index a fixed non-blank pattern.
Font8x5(idx, col) ==
    CASE idx = 72 - FONT_TABLE_BASE ->
            (CASE col = 0 -> 127 [] col = 4 -> 127 [] OTHER -> 8)
      [] idx = 73 - FONT_TABLE_BASE ->
            (CASE col = 1 -> 65 [] col = 2 -> 127 [] col = 3 -> 65 [] OTHER -> 0)
      [] idx = UNKNOWN_GLYPH - FONT_TABLE_BASE ->
            (CASE col = 0 -> 127 [] col = 4 -> 127 [] OTHER -> 65)
      [] OTHER -> ((idx * 29 + col * 53 + 17) % 255) + 1

\* Faulty variant of GlyphIndex: a code outside the font's range is not
\* replaced by the unknown glyph
GlyphIndex_NoFallback(c) == c - FONT_TABLE_BASE

\* c < FONT_FIRST_CHR || c > FONT_LAST_CHR -> 0x7F; then c -= 0x1D
GlyphIndex(c) ==
    (IF c < FONT_FIRST_CHR \/ c > FONT_LAST_CHR THEN UNKNOWN_GLYPH ELSE c) - FONT_TABLE_BASE

\* The pixel loops of the drawing code: for col in 0 .. width-1 and every row,
\* matrix_draw_pixel(col + column, row, px[col, row]).  Every pixel is
\* written once, a write outside the matrix is dropped and a write inside
\* sets or clears that one bit, so the buffer after the loops is given bit
\* by bit over the columns the matrix has.
PaintBand(buf, column, width, px) ==
    LET Bit(row, x) ==
            IF x >= column /\ x < column + width
            THEN (IF px[x - column, row] # 0 THEN 1 ELSE 0)
            ELSE getPixel(buf, x, row)
        Byte(row, zone) ==
            LET x0 == zone * 8
            IN  Bit(row, x0) + 2 * Bit(row, x0 + 1) + 4 * Bit(row, x0 + 2)
                + 8 * Bit(row, x0 + 3) + 16 * Bit(row, x0 + 4) + 32 * Bit(row, x0 + 5)
                + 64 * Bit(row, x0 + 6) + 128 * Bit(row, x0 + 7)
    IN  Stored([row \in Rows |->
                   [zone \in Zones |->
                       IF zone * 8 + 7 < column \/ zone * 8 >= column + width
                       THEN buf[row][zone]
                       ELSE Byte(row, zone)]])

GlyphPixel(idx, inv, col, row) ==
    LET d == bitRead(Font8x5(idx, col), row)
    IN  IF inv THEN 1 - d ELSE d

matrix_draw_chr(buf, column, c, inv) ==
    PaintBand(buf, column, FONT_PITCH,
              [col \in 0 .. FONT_PITCH - 1, row \in Rows |->
                  GlyphPixel(GlyphIndex(c), inv, col, row)])

\* character i of the zero-terminated string text (0 is the terminator)
CharAt(text, i) == IF i >= 0 /\ i < Len(text) THEN text[i + 1] ELSE 0

\* Faulty variant of TextColumn: the half width of a centred text is rounded
\* up instead of down
TextColumn_RoundsUp(count, format) ==
    CASE format = DT_ALIGN_CENTER ->
            IF count <= MATRIX_MAX_CHRS
            THEN (MATRIX_COLUMNS \div 2) - ((count * FONT_PITCH + 1) \div 2)
            ELSE 0
      [] format = DT_ALIGN_RIGHT ->
            IF count <= MATRIX_MAX_CHRS THEN MATRIX_COLUMNS - (count * FONT_PITCH) ELSE 0
      [] OTHER -> 0

TextColumn(count, format) ==
    CASE format = DT_ALIGN_CENTER ->
            IF count <= MATRIX_MAX_CHRS
            THEN (MATRIX_COLUMNS \div 2) - ((count * FONT_PITCH) \div 2)
            ELSE 0
      [] format = DT_ALIGN_RIGHT ->
            IF count <= MATRIX_MAX_CHRS THEN MATRIX_COLUMNS - (count * FONT_PITCH) ELSE 0
      [] OTHER -> 0

TextStartIndex(count, format) ==
    CASE format = DT_ALIGN_CENTER ->
            IF count <= MATRIX_MAX_CHRS THEN 0 ELSE (count - MATRIX_MAX_CHRS) \div 2
      [] format = DT_ALIGN_RIGHT ->
            IF count <= MATRIX_MAX_CHRS THEN 0 ELSE count - MATRIX_MAX_CHRS
      [] OTHER -> 0

RECURSIVE DrawTextFrom(_, _, _, _, _, _)
DrawTextFrom(buf, text, count, style, i, column) ==
    IF i < count /\ column < MATRIX_COLUMNS
    THEN LET drawn == matrix_draw_chr(buf, column, CharAt(text, i), style # 0)
         IN  IF drawn = drawn
             THEN DrawTextFrom(drawn, text, count, style, i + 1, column + FONT_PITCH)
             ELSE drawn
    ELSE buf

matrix_draw_text(buf, text, count, format, style) ==
    DrawTextFrom(buf, text, count, style,
                 TextStartIndex(count, format), TextColumn(count, format))

\* TRUE when matrix_shiftin_chr passes its sanity check and shifts the buffer
ShiftinActs(bit_index) == ~(bit_index < 0 \/ bit_index > 7)

matrix_shiftin_chr(buf, c, bit_index, shift_dir) ==
    IF ~ShiftinActs(bit_index)
    THEN buf
    ELSE PaintBand(matrix_shift_buffer(buf, shift_dir),
                   IF shift_dir = DIRECTION_LEFT THEN 119 ELSE 0, 1,
                   [col \in {0}, row \in Rows |->
                       bitRead(Font8x5(GlyphIndex(c), bit_index), row)])

\* ------------------------------------------------------------------------
\* Animation engine
\* ------------------------------------------------------------------------
\* msg_context as the static initialisers leave it (tmp_1 has no initialiser
\* of its own; the object has static storage and is zeroed first)
InitContext ==
    [routine |-> DEF_ANIM_RTN, animation_speed |-> DEF_ANIM_SPEED,
     anim_prev_millis |-> ULong(0), state |-> 0, tmp_1 |-> 0, tmp_2 |-> 0,
     msg_ptr |-> <<>>, msg_length |-> 0, interval |-> 0, delay_prev_millis |-> ULong(0)]

\* value of an int converted to unsigned int for a mixed comparison
ToUInt(x) == x % UINT_MOD

\* 1000 * pause_interval is computed in unsigned int and then widened
PauseToInterval(pause_interval) == (1000 * pause_interval) % UINT_MOD

\* Faulty variant of start_animation: the sub-state of the previous animation
\* is kept (the "state = 0" assignment is missing)
start_animation_KeepsState(c, f, routine, animation_speed, pause_interval, msg_start_ptr, now) ==
    LET c1 == [c EXCEPT !.routine = routine,
                        !.animation_speed = animation_speed,
                        !.interval = PauseToInterval(pause_interval),
                        !.msg_ptr = msg_start_ptr,
                        !.msg_length = Len(msg_start_ptr)]
    IN  IF c1.msg_length = 0
        THEN [c |-> c1, f |-> f]
        ELSE [c |-> [c1 EXCEPT !.anim_prev_millis = ULong(0),
                               !.delay_prev_millis = now],
              f |-> FALSE]

\* Faulty variant of start_animation: fetch_next_msg is cleared before the
\* length of the message is looked at
start_animation_FlagBeforeLength(c, f, routine, animation_speed, pause_interval, msg_start_ptr, now) ==
    LET c1 == [c EXCEPT !.routine = routine,
                        !.animation_speed = animation_speed,
                        !.interval = PauseToInterval(pause_interval),
                        !.msg_ptr = msg_start_ptr,
                        !.msg_length = Len(msg_start_ptr)]
    IN  IF c1.msg_length = 0
        THEN [c |-> c1, f |-> FALSE]
        ELSE [c |-> [c1 EXCEPT !.state = 0,
                               !.anim_prev_millis = ULong(0),
                               !.delay_prev_millis = now],
              f |-> FALSE]

\* Faulty variant of start_animation: the early return for an empty message
\* is missing, so an empty message is armed like any other
start_animation_ArmsEmpty(c, f, routine, animation_speed, pause_interval, msg_start_ptr, now) ==
    [c |-> [c EXCEPT !.routine = routine,
                     !.animation_speed = animation_speed,
                     !.interval = PauseToInterval(pause_interval),
                     !.msg_ptr = msg_start_ptr,
                     !.msg_length = Len(msg_start_ptr),
                     !.state = 0,
                     !.anim_prev_millis = ULong(0),
                     !.delay_prev_millis = now],
     f |-> FALSE]

\* start_animation: [c |-> msg_context, f |-> fetch_next_msg] after the call
\* made at clock reading now
start_animation(c, f, routine, animation_speed, pause_interval, msg_start_ptr, now) ==
    LET c1 == [c EXCEPT !.routine = routine,
                        !.animation_speed = animation_speed,
                        !.interval = PauseToInterval(pause_interval),
                        !.msg_ptr = msg_start_ptr,
                        !.msg_length = Len(msg_start_ptr)]
    IN  IF c1.msg_length = 0
        THEN [c |-> c1, f |-> f]
        ELSE [c |-> [c1 EXCEPT !.state = 0,
                               !.anim_prev_millis = ULong(0),
                               !.delay_prev_millis = now],
              f |-> FALSE]

\* Result of one routine branch of do_animation:
\*   c, b    msg_context and display_buffer after the branch
\*   done    the branch set fetch_next_msg = true
\*   ret     the branch returned before the common pause tail
\*   ev      what the branch did to the buffer and the sub-state
Branch(c, b, done, ret, ev) == [c |-> c, b |-> b, done |-> done, ret |-> ret, ev |-> ev]

\* Faulty variant of Elapsed: the difference is not taken modulo 2^32 but
\* held at 0 when the clock reads less than the stored timestamp
Elapsed_NoWrap(c, l_millis) ==
    IF \/ l_millis.hi < c.anim_prev_millis.hi
       \/ l_millis.hi = c.anim_prev_millis.hi /\ l_millis.lo < c.anim_prev_millis.lo
    THEN ULong(0)
    ELSE ULongSub(l_millis, c.anim_prev_millis)

Elapsed(c, l_millis) == ULongSub(l_millis, c.anim_prev_millis)

\* Faulty variant of Case0_1: the completion test fires one trailing shift
\* earlier (state >= msg_length + MATRIX_COLUMNS - 1)
Case0_1_DoneOneEarlier(c, b, l_millis) ==
    LET b0 == IF c.routine = 0 /\ ULongIsZero(c.anim_prev_millis) THEN matrix_fill_buffer(0) ELSE b
    IN  IF ULongIsZero(c.anim_prev_millis)
        THEN Branch([c EXCEPT !.tmp_1 = 0, !.anim_prev_millis = l_millis],
                    b0, FALSE, TRUE, {"init"})
        ELSE IF ULongGT(Elapsed(c, l_millis), (c.animation_speed * 10) + 15)
        THEN IF ToUInt(c.state) <= ToUInt(c.msg_length - 1)
             THEN LET b1 == matrix_shiftin_chr(b0, CharAt(c.msg_ptr, c.state),
                                               c.tmp_1, DIRECTION_LEFT)
                      c1 == IF c.tmp_1 + 1 = FONT_PITCH
                            THEN [c EXCEPT !.state = c.state + 1, !.tmp_1 = 0]
                            ELSE [c EXCEPT !.tmp_1 = c.tmp_1 + 1]
                  IN  Branch([c1 EXCEPT !.anim_prev_millis = l_millis], b1, FALSE, TRUE,
                             IF ShiftinActs(c.tmp_1) THEN {"shiftin"} ELSE {"skip"})
             ELSE Branch([c EXCEPT !.state = c.state + 1, !.anim_prev_millis = l_millis],
                         matrix_shift_buffer(b0, DIRECTION_LEFT),
                         ToUInt(c.state) >= ToUInt(c.msg_length + MATRIX_COLUMNS - 1),
                         TRUE, {"shiftout"})
        ELSE Branch(c, b0, FALSE, TRUE, {})

\* Faulty variant of Case0_1: the closing "return" is a "break", so every
\* tick goes on to the common pause tail
Case0_1_Breaks(c, b, l_millis) ==
    LET b0 == IF c.routine = 0 /\ ULongIsZero(c.anim_prev_millis) THEN matrix_fill_buffer(0) ELSE b
    IN  IF ULongIsZero(c.anim_prev_millis)
        THEN Branch([c EXCEPT !.tmp_1 = 0, !.anim_prev_millis = l_millis],
                    b0, FALSE, FALSE, {"init"})
        ELSE IF ULongGT(Elapsed(c, l_millis), (c.animation_speed * 10) + 15)
        THEN IF ToUInt(c.state) <= ToUInt(c.msg_length - 1)
             THEN LET b1 == matrix_shiftin_chr(b0, CharAt(c.msg_ptr, c.state),
                                               c.tmp_1, DIRECTION_LEFT)
                      c1 == IF c.tmp_1 + 1 = FONT_PITCH
                            THEN [c EXCEPT !.state = c.state + 1, !.tmp_1 = 0]
                            ELSE [c EXCEPT !.tmp_1 = c.tmp_1 + 1]
                  IN  Branch([c1 EXCEPT !.anim_prev_millis = l_millis], b1, FALSE, FALSE,
                             IF ShiftinActs(c.tmp_1) THEN {"shiftin"} ELSE {"skip"})
             ELSE Branch([c EXCEPT !.state = c.state + 1, !.anim_prev_millis = l_millis],
                         matrix_shift_buffer(b0, DIRECTION_LEFT),
                         ToUInt(c.state) >= ToUInt(c.msg_length + MATRIX_COLUMNS),
                         FALSE, {"shiftout"})
        ELSE Branch(c, b0, FALSE, FALSE, {})

\* case 0 falls into case 1: smooth scrolling with / without clear screen
Case0_1(c, b, l_millis) ==
    LET b0 == IF c.routine = 0 /\ ULongIsZero(c.anim_prev_millis) THEN matrix_fill_buffer(0) ELSE b
    IN  IF ULongIsZero(c.anim_prev_millis)
        THEN Branch([c EXCEPT !.tmp_1 = 0, !.anim_prev_millis = l_millis],
                    b0, FALSE, TRUE, {"init"})
        ELSE IF ULongGT(Elapsed(c, l_millis), (c.animation_speed * 10) + 15)
        THEN IF ToUInt(c.state) <= ToUInt(c.msg_length - 1)
             THEN LET b1 == matrix_shiftin_chr(b0, CharAt(c.msg_ptr, c.state),
                                               c.tmp_1, DIRECTION_LEFT)
                      c1 == IF c.tmp_1 + 1 = FONT_PITCH
                            THEN [c EXCEPT !.state = c.state + 1, !.tmp_1 = 0]
                            ELSE [c EXCEPT !.tmp_1 = c.tmp_1 + 1]
                  IN  Branch([c1 EXCEPT !.anim_prev_millis = l_millis], b1, FALSE, TRUE,
                             IF ShiftinActs(c.tmp_1) THEN {"shiftin"} ELSE {"skip"})
             ELSE Branch([c EXCEPT !.state = c.state + 1, !.anim_prev_millis = l_millis],
                         matrix_shift_buffer(b0, DIRECTION_LEFT),
                         ToUInt(c.state) >= ToUInt(c.msg_length + MATRIX_COLUMNS),
                         TRUE, {"shiftout"})
        ELSE Branch(c, b0, FALSE, TRUE, {})

\* static text, left / center / right
Case2_4(c, b, l_millis) ==
    IF ULongIsZero(c.anim_prev_millis)
    THEN LET b0 == IF c.msg_length < MATRIX_MAX_CHRS THEN matrix_fill_buffer(0) ELSE b
         IN  Branch([c EXCEPT !.anim_prev_millis = ULongAdd(c.anim_prev_millis, 1)],
                    matrix_draw_text(b0, c.msg_ptr, c.msg_length, c.routine - 2,
                                     DT_STYLE_NORMAL),
                    FALSE, FALSE, {"init", "draw"})
    ELSE Branch(c, b, FALSE, FALSE, {})

\* state = !state
LogicalNot(x) == IF x = 0 THEN 1 ELSE 0

\* Faulty variant of Case5_7: the visibility toggles on every tick after the
\* draw, whatever time has passed
Case5_7_NoThreshold(c, b, l_millis) ==
    IF ULongIsZero(c.anim_prev_millis)
    THEN Branch([c EXCEPT !.anim_prev_millis = l_millis],
                IF c.state = 0
                THEN matrix_fill_buffer(0)
                ELSE matrix_draw_text(b, c.msg_ptr, c.msg_length, c.routine - 5,
                                      DT_STYLE_NORMAL),
                FALSE, FALSE, {"init", "draw"})
    ELSE Branch([c EXCEPT !.anim_prev_millis = ULong(0), !.state = LogicalNot(c.state)],
                b, FALSE, FALSE, {"toggle"})

\* blinking text, left / center / right
Case5_7(c, b, l_millis) ==
    IF ULongIsZero(c.anim_prev_millis)
    THEN Branch([c EXCEPT !.anim_prev_millis = l_millis],
                IF c.state = 0
                THEN matrix_fill_buffer(0)
                ELSE matrix_draw_text(b, c.msg_ptr, c.msg_length, c.routine - 5,
                                      DT_STYLE_NORMAL),
                FALSE, FALSE, {"init", "draw"})
    ELSE IF ULongGT(Elapsed(c, l_millis), 200 + (c.animation_speed * 100))
    THEN Branch([c EXCEPT !.anim_prev_millis = ULong(0), !.state = LogicalNot(c.state)],
                b, FALSE, FALSE, {"toggle"})
    ELSE Branch(c, b, FALSE, FALSE, {})

\* inverting text, left / center / right
Case8_10(c, b, l_millis) ==
    IF ULongIsZero(c.anim_prev_millis)
    THEN LET b0 == IF c.msg_length < MATRIX_MAX_CHRS
                   THEN matrix_fill_buffer(IF c.state = 0 THEN 0 ELSE 255)
                   ELSE b
         IN  Branch([c EXCEPT !.anim_prev_millis = l_millis],
                    matrix_draw_text(b0, c.msg_ptr, c.msg_length, c.routine - 8,
                                     IF c.state = 0 THEN DT_STYLE_NORMAL
                                                    ELSE DT_STYLE_INVERSE),
                    FALSE, FALSE, {"init", "draw"})
    ELSE IF ULongGT(Elapsed(c, l_millis), 400 + (c.animation_speed * 100))
    THEN Branch([c EXCEPT !.anim_prev_millis = ULong(0), !.state = LogicalNot(c.state)],
                b, FALSE, FALSE, {"toggle"})
    ELSE Branch(c, b, FALSE, FALSE, {})

\* scroll message up / down, then hold
Case11_12(c, b, l_millis) ==
    IF ULongIsZero(c.anim_prev_millis)
    THEN Branch([c EXCEPT !.tmp_1 = 0, !.anim_prev_millis = l_millis],
                b, FALSE, FALSE, {"init"})
    ELSE IF c.state = 0 /\ ULongGT(Elapsed(c, l_millis), 400 + (c.animation_speed * 100))
    THEN IF c.tmp_1 < 8
         THEN Branch([c EXCEPT !.tmp_1 = c.tmp_1 + 1, !.anim_prev_millis = l_millis],
                     matrix_shift_buffer(b, IF c.routine = 11 THEN DIRECTION_UP
                                                               ELSE DIRECTION_DOWN),
                     FALSE, TRUE, {"rowshift"})
         ELSE Branch([c EXCEPT !.state = c.state + 1, !.anim_prev_millis = l_millis],
                     matrix_draw_text(b, c.msg_ptr, c.msg_length, DT_ALIGN_CENTER,
                                      DT_STYLE_NORMAL),
                     FALSE, TRUE, {"draw"})
    ELSE Branch(c, b, FALSE, FALSE, {})

RECURSIVE ShiftinWholeChr(_, _, _)
ShiftinWholeChr(buf, ch, i) ==
    IF i >= FONT_PITCH
    THEN buf
    ELSE LET shifted == matrix_shiftin_chr(buf, ch, i, DIRECTION_LEFT)
         IN  IF shifted = shifted THEN ShiftinWholeChr(shifted, ch, i + 1) ELSE shifted

\* coarse (block) scrolling
Case13(c, b, l_millis) ==
    IF ULongIsZero(c.anim_prev_millis)
    THEN Branch([c EXCEPT !.anim_prev_millis = l_millis], matrix_fill_buffer(0),
                FALSE, FALSE, {"init"})
    ELSE IF ULongGT(Elapsed(c, l_millis), 90 + (c.animation_speed * 100))
    THEN IF ToUInt(c.state) <= ToUInt(c.msg_length - 1) /\ c.state < MATRIX_MAX_CHRS
         THEN Branch([c EXCEPT !.state = c.state + 1, !.anim_prev_millis = l_millis],
                     ShiftinWholeChr(b, CharAt(c.msg_ptr, c.state), 0),
                     FALSE, FALSE, {"block"})
         ELSE Branch([c EXCEPT !.anim_prev_millis = l_millis], b, FALSE, FALSE, {})
    ELSE Branch(c, b, FALSE, FALSE, {})

\* Faulty variant of Case14: the shoot-out ends after MATRIX_MAX_CHRS shifts,
\* before the message has left the matrix
Case14_ShortShootOut(c, b, l_millis) ==
    IF ULongIsZero(c.anim_prev_millis)
    THEN Branch([c EXCEPT !.tmp_1 = 0, !.tmp_2 = 0, !.anim_prev_millis = l_millis],
                matrix_fill_buffer(0), FALSE, TRUE, {"init"})
    ELSE IF c.state = 0 /\ ULongGT(Elapsed(c, l_millis), 1)
    THEN IF ToUInt(c.tmp_1) <= ToUInt(c.msg_length - 1) /\ c.tmp_1 <= MATRIX_MAX_CHRS - 1
         THEN LET c1 == IF c.tmp_2 + 1 = FONT_PITCH
                        THEN [c EXCEPT !.tmp_1 = c.tmp_1 + 1, !.tmp_2 = 0]
                        ELSE [c EXCEPT !.tmp_2 = c.tmp_2 + 1]
              IN  Branch([c1 EXCEPT !.anim_prev_millis = l_millis],
                         matrix_shiftin_chr(b, CharAt(c.msg_ptr, c.tmp_1), c.tmp_2,
                                            DIRECTION_LEFT),
                         FALSE, TRUE, {"shiftin"})
         ELSE IF c.tmp_1 < MATRIX_MAX_CHRS
         THEN LET c1 == IF c.tmp_2 + 1 = FONT_PITCH
                        THEN [c EXCEPT !.tmp_1 = c.tmp_1 + 1, !.tmp_2 = 0]
                        ELSE [c EXCEPT !.tmp_2 = c.tmp_2 + 1]
              IN  Branch([c1 EXCEPT !.anim_prev_millis = l_millis],
                         matrix_shift_buffer(b, DIRECTION_LEFT), FALSE, TRUE, {"pad"})
         ELSE Branch([c EXCEPT !.state = c.state + 1, !.anim_prev_millis = l_millis],
                     b, FALSE, TRUE, {"state"})
    ELSE IF c.state = 1 /\ ULongGT(ULongSub(l_millis, c.delay_prev_millis), c.interval)
    THEN Branch([c EXCEPT !.state = c.state + 1, !.tmp_1 = 0,
                          !.anim_prev_millis = l_millis],
                b, FALSE, TRUE, {"state"})
    ELSE IF c.state = 2 /\ ULongGT(Elapsed(c, l_millis), 1)
    THEN Branch([c EXCEPT !.tmp_1 = c.tmp_1 + 1,
                          !.state = IF c.tmp_1 + 1 > MATRIX_MAX_CHRS
                                    THEN c.state + 1 ELSE c.state,
                          !.anim_prev_millis = l_millis],
                matrix_shift_buffer(b, DIRECTION_LEFT), FALSE, TRUE, {"shiftout"})
    ELSE IF c.state = 3
    THEN Branch(c, b, TRUE, TRUE, {})
    ELSE Branch(c, b, FALSE, TRUE, {})

\* fast zap: shoot in, pause, shoot out
Case14(c, b, l_millis) ==
    IF ULongIsZero(c.anim_prev_millis)
    THEN Branch([c EXCEPT !.tmp_1 = 0, !.tmp_2 = 0, !.anim_prev_millis = l_millis],
                matrix_fill_buffer(0), FALSE, TRUE, {"init"})
    ELSE IF c.state = 0 /\ ULongGT(Elapsed(c, l_millis), 1)
    THEN IF ToUInt(c.tmp_1) <= ToUInt(c.msg_length - 1) /\ c.tmp_1 <= MATRIX_MAX_CHRS - 1
         THEN LET c1 == IF c.tmp_2 + 1 = FONT_PITCH
                        THEN [c EXCEPT !.tmp_1 = c.tmp_1 + 1, !.tmp_2 = 0]
                        ELSE [c EXCEPT !.tmp_2 = c.tmp_2 + 1]
              IN  Branch([c1 EXCEPT !.anim_prev_millis = l_millis],
                         matrix_shiftin_chr(b, CharAt(c.msg_ptr, c.tmp_1), c.tmp_2,
                                            DIRECTION_LEFT),
                         FALSE, TRUE, {"shiftin"})
         ELSE IF c.tmp_1 < MATRIX_MAX_CHRS
         THEN LET c1 == IF c.tmp_2 + 1 = FONT_PITCH
                        THEN [c EXCEPT !.tmp_1 = c.tmp_1 + 1, !.tmp_2 = 0]
                        ELSE [c EXCEPT !.tmp_2 = c.tmp_2 + 1]
              IN  Branch([c1 EXCEPT !.anim_prev_millis = l_millis],
                         matrix_shift_buffer(b, DIRECTION_LEFT), FALSE, TRUE, {"pad"})
         ELSE Branch([c EXCEPT !.state = c.state + 1, !.anim_prev_millis = l_millis],
                     b, FALSE, TRUE, {"state"})
    ELSE IF c.state = 1 /\ ULongGT(ULongSub(l_millis, c.delay_prev_millis), c.interval)
    THEN Branch([c EXCEPT !.state = c.state + 1, !.tmp_1 = 0,
                          !.anim_prev_millis = l_millis],
                b, FALSE, TRUE, {"state"})
    ELSE IF c.state = 2 /\ ULongGT(Elapsed(c, l_millis), 1)
    THEN Branch([c EXCEPT !.tmp_1 = c.tmp_1 + 1,
                          !.state = IF c.tmp_1 + 1 > MATRIX_COLUMNS
                                    THEN c.state + 1 ELSE c.state,
                          !.anim_prev_millis = l_millis],
                matrix_shift_buffer(b, DIRECTION_LEFT), FALSE, TRUE, {"shiftout"})
    ELSE IF c.state = 3
    THEN Branch(c, b, TRUE, TRUE, {})
    ELSE Branch(c, b, FALSE, TRUE, {})

DISSOLVE_TICKS == 6000

\* Faulty variant of Case15: the random pixel is set instead of cleared
Case15_SetsPixel(c, b, l_millis, rnd) ==
    IF c.state < DISSOLVE_TICKS
    THEN Branch([c EXCEPT !.state = c.state + 1],
                matrix_draw_pixel(b, rnd[1], rnd[2], 1), FALSE, TRUE, {"dissolve"})
    ELSE IF c.state = DISSOLVE_TICKS
    THEN Branch([c EXCEPT !.state = c.state + 1],
                matrix_draw_text(matrix_fill_buffer(0), c.msg_ptr, c.msg_length,
                                 DT_ALIGN_LEFT, DT_STYLE_NORMAL),
                FALSE, FALSE, {"draw"})
    ELSE Branch(c, b, FALSE, FALSE, {})

\* dissolve screen; rnd = <<random(MATRIX_COLUMNS), random(MATRIX_ROWS)>>
Case15(c, b, l_millis, rnd) ==
    IF c.state < DISSOLVE_TICKS
    THEN Branch([c EXCEPT !.state = c.state + 1],
                matrix_draw_pixel(b, rnd[1], rnd[2], 0), FALSE, TRUE, {"dissolve"})
    ELSE IF c.state = DISSOLVE_TICKS
    THEN Branch([c EXCEPT !.state = c.state + 1],
                matrix_draw_text(matrix_fill_buffer(0), c.msg_ptr, c.msg_length,
                                 DT_ALIGN_LEFT, DT_STYLE_NORMAL),
                FALSE, FALSE, {"draw"})
    ELSE Branch(c, b, FALSE, FALSE, {})

\* the erase loops of routines 16 and 19: width x MATRIX_ROWS pixels cleared
EraseBand(buf, column, width) ==
    PaintBand(buf, column, width, [col \in 0 .. width - 1, row \in Rows |-> 0])

\* sliding characters
Case16(c, b, l_millis) ==
    IF ULongIsZero(c.anim_prev_millis)
    THEN Branch([c EXCEPT !.tmp_1 = (IF c.msg_length >= MATRIX_MAX_CHRS
                                     THEN MATRIX_MAX_CHRS ELSE c.msg_length) - 1,
                          !.tmp_2 = MATRIX_COLUMNS - FONT_PITCH,
                          !.anim_prev_millis = l_millis],
                matrix_fill_buffer(0), FALSE, TRUE, {"init"})
    ELSE IF c.state <= c.tmp_1 /\ ULongGT(Elapsed(c, l_millis), 20 + (c.animation_speed * 10))
    THEN LET b1 == matrix_draw_chr(b, c.tmp_2, CharAt(c.msg_ptr, c.state), FALSE)
             b2 == EraseBand(b1, c.tmp_2 + FONT_PITCH, FONT_PITCH)
             c1 == IF c.tmp_2 > c.state * FONT_PITCH
                   THEN [c EXCEPT !.tmp_2 = c.tmp_2 - FONT_PITCH]
                   ELSE [c EXCEPT !.tmp_2 = MATRIX_COLUMNS - FONT_PITCH,
                                  !.state = c.state + 1]
         IN  Branch([c1 EXCEPT !.anim_prev_millis = l_millis], b2, FALSE, TRUE, {"slide"})
    ELSE Branch(c, b, FALSE, FALSE, {})

\* Faulty variant of Case17_18: the case returns in every sub-state, so the
\* pause tail is never reached
Case17_18_AlwaysReturns(c, b, l_millis) ==
    LET r == IF ULongIsZero(c.anim_prev_millis)
             THEN LET b0 == IF c.msg_length < MATRIX_MAX_CHRS
                            THEN matrix_fill_buffer(0) ELSE b
                  IN  Branch([c EXCEPT !.tmp_1 = 0, !.anim_prev_millis = l_millis],
                             matrix_draw_text(b0, c.msg_ptr, c.msg_length,
                                              DT_ALIGN_CENTER, DT_STYLE_NORMAL),
                             FALSE, FALSE, {"init", "draw"})
             ELSE IF c.state = 0 /\ ULongGT(Elapsed(c, l_millis), 2000)
             THEN Branch([c EXCEPT !.state = c.state + 1, !.anim_prev_millis = l_millis],
                         b, FALSE, FALSE, {"state"})
             ELSE IF c.state = 1 /\ ULongGT(Elapsed(c, l_millis), 90)
             THEN Branch([c EXCEPT !.tmp_1 = c.tmp_1 + 1,
                                   !.state = IF c.tmp_1 + 1 = MATRIX_COLUMNS
                                             THEN c.state + 1 ELSE c.state,
                                   !.anim_prev_millis = l_millis],
                         matrix_rotate_buffer(b, IF c.routine = 17 THEN DIRECTION_LEFT
                                                                   ELSE DIRECTION_RIGHT),
                         FALSE, FALSE, {"rotate"})
             ELSE Branch(c, b, FALSE, FALSE, {})
    IN  [r EXCEPT !.ret = TRUE]

\* rolling text, left / right rotation
Case17_18(c, b, l_millis) ==
    LET r == IF ULongIsZero(c.anim_prev_millis)
             THEN LET b0 == IF c.msg_length < MATRIX_MAX_CHRS
                            THEN matrix_fill_buffer(0) ELSE b
                  IN  Branch([c EXCEPT !.tmp_1 = 0, !.anim_prev_millis = l_millis],
                             matrix_draw_text(b0, c.msg_ptr, c.msg_length,
                                              DT_ALIGN_CENTER, DT_STYLE_NORMAL),
                             FALSE, FALSE, {"init", "draw"})
             ELSE IF c.state = 0 /\ ULongGT(Elapsed(c, l_millis), 2000)
             THEN Branch([c EXCEPT !.state = c.state + 1, !.anim_prev_millis = l_millis],
                         b, FALSE, FALSE, {"state"})
             ELSE IF c.state = 1 /\ ULongGT(Elapsed(c, l_millis), 90)
             THEN Branch([c EXCEPT !.tmp_1 = c.tmp_1 + 1,
                                   !.state = IF c.tmp_1 + 1 = MATRIX_COLUMNS
                                             THEN c.state + 1 ELSE c.state,
                                   !.anim_prev_millis = l_millis],
                         matrix_rotate_buffer(b, IF c.routine = 17 THEN DIRECTION_LEFT
                                                                   ELSE DIRECTION_RIGHT),
                         FALSE, FALSE, {"rotate"})
             ELSE Branch(c, b, FALSE, FALSE, {})
    IN  [r EXCEPT !.ret = (r.c.state < 2)]

\* pac-man animation frames
pacman(frame, col) ==
    IF frame = 0
    THEN <<0, 60, 126, 255, 255, 255, 126, 60>>[col + 1]
    ELSE <<0, 66, 231, 255, 255, 255, 126, 60>>[col + 1]

\* Faulty variant of Case19: the tick that hands over to routine 0 also
\* signals completion
Case19_DoneAtEdge(c, b, l_millis) ==
    IF ULongIsZero(c.anim_prev_millis)
    THEN Branch([c EXCEPT !.tmp_1 = MATRIX_COLUMNS - 8, !.tmp_2 = 1,
                          !.anim_prev_millis = l_millis],
                b, FALSE, TRUE, {"init"})
    ELSE IF c.state < 2 /\ ULongGT(Elapsed(c, l_millis), 100)
    THEN LET b1 == PaintBand(b, c.tmp_1, 8,
                            [col \in 0 .. 7, row \in Rows |->
                                bitRead(pacman(c.tmp_2, col), row)])
             b2 == EraseBand(b1, c.tmp_1 + 8, 8)
             c1 == IF c.tmp_2 = 0
                   THEN [c EXCEPT !.tmp_2 = 1]
                   ELSE [c EXCEPT !.tmp_2 = 0, !.state = c.state + 1]
         IN  Branch([c1 EXCEPT !.anim_prev_millis = l_millis], b2, FALSE, TRUE, {"frame"})
    ELSE IF c.state = 2 /\ c.tmp_1 > -8
    THEN Branch([c EXCEPT !.tmp_1 = c.tmp_1 - 8, !.state = 0,
                          !.anim_prev_millis = l_millis],
                b, FALSE, TRUE, {"move"})
    ELSE IF c.tmp_1 <= -8
    THEN Branch([c EXCEPT !.routine = 0], matrix_fill_buffer(0), TRUE, TRUE, {"handover"})
    ELSE Branch(c, b, FALSE, TRUE, {})

\* pac-man, then smooth scroll
Case19(c, b, l_millis) ==
    IF ULongIsZero(c.anim_prev_millis)
    THEN Branch([c EXCEPT !.tmp_1 = MATRIX_COLUMNS - 8, !.tmp_2 = 1,
                          !.anim_prev_millis = l_millis],
                b, FALSE, TRUE, {"init"})
    ELSE IF c.state < 2 /\ ULongGT(Elapsed(c, l_millis), 100)
    THEN LET b1 == PaintBand(b, c.tmp_1, 8,
                            [col \in 0 .. 7, row \in Rows |->
                                bitRead(pacman(c.tmp_2, col), row)])
             b2 == EraseBand(b1, c.tmp_1 + 8, 8)
             c1 == IF c.tmp_2 = 0
                   THEN [c EXCEPT !.tmp_2 = 1]
                   ELSE [c EXCEPT !.tmp_2 = 0, !.state = c.state + 1]
         IN  Branch([c1 EXCEPT !.anim_prev_millis = l_millis], b2, FALSE, TRUE, {"frame"})
    ELSE IF c.state = 2 /\ c.tmp_1 > -8
    THEN Branch([c EXCEPT !.tmp_1 = c.tmp_1 - 8, !.state = 0,
                          !.anim_prev_millis = l_millis],
                b, FALSE, TRUE, {"move"})
    ELSE IF c.tmp_1 <= -8
    THEN Branch([c EXCEPT !.routine = 0], matrix_fill_buffer(0), FALSE, TRUE, {"handover"})
    ELSE Branch(c, b, FALSE, TRUE, {})

\* Faulty variant of Case20: the length of the message is not looked at, a
\* random routine is picked for every message
Case20_AlwaysRandom(c, b, l_millis, rnd) ==
    Branch([c EXCEPT !.routine = rnd], b, FALSE, FALSE, {})

\* random; rnd = random(0, 20)
Case20(c, b, l_millis, rnd) ==
    IF c.msg_length <= MATRIX_MAX_CHRS
    THEN Branch([c EXCEPT !.routine = rnd], b, FALSE, FALSE, {})
    ELSE Branch([c EXCEPT !.routine = 0], b, FALSE, FALSE, {})

\* Faulty variant of Dispatch: an unhandled routine does nothing and goes on
\* to the pause tail
Dispatch_IgnoresUnhandled(c, b, l_millis, rnd) ==
    CASE c.routine \in {0, 1} -> Case0_1(c, b, l_millis)
      [] c.routine \in {2, 3, 4} -> Case2_4(c, b, l_millis)
      [] c.routine \in {5, 6, 7} -> Case5_7(c, b, l_millis)
      [] c.routine \in {8, 9, 10} -> Case8_10(c, b, l_millis)
      [] c.routine \in {11, 12} -> Case11_12(c, b, l_millis)
      [] c.routine = 13 -> Case13(c, b, l_millis)
      [] c.routine = 14 -> Case14(c, b, l_millis)
      [] c.routine = 15 -> Case15(c, b, l_millis, rnd)
      [] c.routine \in {16} -> Case16(c, b, l_millis)
      [] c.routine \in {17, 18} -> Case17_18(c, b, l_millis)
      [] c.routine = 19 -> Case19(c, b, l_millis)
      [] c.routine = 20 -> Case20(c, b, l_millis, rnd)
      [] OTHER -> Branch(c, b, FALSE, FALSE, {})

\* the switch of do_animation
Dispatch(c, b, l_millis, rnd) ==
    CASE c.routine \in {0, 1} -> Case0_1(c, b, l_millis)
      [] c.routine \in {2, 3, 4} -> Case2_4(c, b, l_millis)
      [] c.routine \in {5, 6, 7} -> Case5_7(c, b, l_millis)
      [] c.routine \in {8, 9, 10} -> Case8_10(c, b, l_millis)
      [] c.routine \in {11, 12} -> Case11_12(c, b, l_millis)
      [] c.routine = 13 -> Case13(c, b, l_millis)
      [] c.routine = 14 -> Case14(c, b, l_millis)
      [] c.routine = 15 -> Case15(c, b, l_millis, rnd)
      [] c.routine \in {16} -> Case16(c, b, l_millis)
      [] c.routine \in {17, 18} -> Case17_18(c, b, l_millis)
      [] c.routine = 19 -> Case19(c, b, l_millis)
      [] c.routine = 20 -> Case20(c, b, l_millis, rnd)
      [] OTHER -> Branch(c, b, TRUE, TRUE, {})

\* handle pause interval between messages: millis() is read again
PauseElapsed(c, tail_millis) == ULongGT(ULongSub(tail_millis, c.delay_prev_millis), c.interval)

\* do_animation called with fetch_next_msg = f; l_millis is the clock reading
\* at entry, tail_millis the one taken by the pause check
do_animation(c, b, f, l_millis, tail_millis, rnd) ==
    LET r == Dispatch(c, b, l_millis, rnd)
        tail == ~r.ret /\ PauseElapsed(r.c, tail_millis)
    IN  [c |-> r.c, b |-> r.b, f |-> (f \/ r.done \/ tail),
         ret |-> r.ret, done |-> r.done, tail |-> tail, ev |-> r.ev]

\* ------------------------------------------------------------------------
\* State
\* ------------------------------------------------------------------------
VARIABLES
    display_buffer,   \* display_buffer[row][zone], one byte per 8 columns
    msg_context,      \* the animation context
    fetch_next_msg,   \* completion flag: true when the next message is wanted
    clock,            \* the last reading of millis() taken at a call's entry
    cadence,          \* milliseconds between two calls of do_animation
    starts,           \* number of start_animation calls made so far
    args,             \* the arguments of the last start_animation call
    call,             \* the last engine call and what it did
    count,            \* per event, how often it happened since the last arming
    saved,            \* buffer snapshot taken by the buffer round-trip runs
    probe             \* progress of a buffer round-trip run

vars == <<display_buffer, msg_context, fetch_next_msg, clock, cadence, starts,
          args, call, count, saved, probe>>

\* ------------------------------------------------------------------------
\* Bounds and input sets
\* ------------------------------------------------------------------------
\* messages are strings of at most MaxMsgLen characters, plus one string
\* longer than the display holds
MaxMsgLen == 2
MaxStarts == 2

Msg(n) == [i \in 1 .. n |-> IF i % 2 = 1 THEN 72 ELSE 73]
LongMsg == Msg(MATRIX_MAX_CHRS + 1)
Messages == {Msg(n) : n \in 1 .. MaxMsgLen} \cup {LongMsg}

Routines == (0 .. 13) \cup {16, 19}
Speeds == {0, 5}
Pauses == {0, 1, 66}
Cadences == {10, 150, 1000}
StartClocks == {ULong(5000), ULongSub(ULong(0), ULong(3000))}
TailDelays == {0, 1}

Events == {"init", "shiftin", "skip", "shiftout", "draw", "toggle", "rowshift",
           "block", "pad", "state", "dissolve", "slide", "rotate", "frame",
           "move", "handover"}

NoCall == [op |-> "none", empty |-> FALSE, ret |-> FALSE, done |-> FALSE,
           tail |-> FALSE, ev |-> {}, l_millis |-> ULong(0), tail_millis |-> ULong(0)]

ZeroCount == [e \in Events |-> 0]

\* the values random() may return to the routine about to run
RndChoices(c) ==
    CASE c.routine = 15 -> Columns \X Rows
      [] c.routine = 20 -> 0 .. 19
      [] OTHER -> {0}

\* ------------------------------------------------------------------------
\* Initial state: setup() has cleared the buffer, nothing is armed
\* ------------------------------------------------------------------------
NoArgs == [routine |-> DEF_ANIM_RTN, animation_speed |-> DEF_ANIM_SPEED,
           pause_interval |-> DEF_PAUSE_INTERVAL, msg |-> <<>>]

NoProbe == [dir |-> DIRECTION_LEFT, forth |-> 0, back |-> 0]

Idle ==
    /\ msg_context = InitContext
    /\ fetch_next_msg = TRUE
    /\ starts = 0
    /\ args = NoArgs
    /\ call = NoCall
    /\ count = ZeroCount

Init ==
    /\ display_buffer = matrix_fill_buffer(0)
    /\ Idle
    /\ clock \in StartClocks
    /\ cadence \in Cadences
    /\ saved = BlankBuffer
    /\ probe = NoProbe

\* ------------------------------------------------------------------------
\* Actions
\* ------------------------------------------------------------------------
\* loop() calls start_animation only while fetch_next_msg is true
StartAnimation(routine, animation_speed, pause_interval, msg) ==
    /\ fetch_next_msg = TRUE
    /\ \E r \in {start_animation(msg_context, fetch_next_msg, routine, animation_speed,
                                 pause_interval, msg, clock)} :
           /\ msg_context' = r.c
           /\ fetch_next_msg' = r.f
           /\ call' = [NoCall EXCEPT !.op = "start", !.empty = (Len(msg) = 0),
                                     !.l_millis = clock]
           /\ count' = IF Len(msg) = 0 THEN count ELSE ZeroCount
    /\ starts' = starts + 1
    /\ args' = [routine |-> routine, animation_speed |-> animation_speed,
                pause_interval |-> pause_interval, msg |-> msg]
    /\ UNCHANGED <<display_buffer, clock, cadence, saved, probe>>

\* loop() calls do_animation only while fetch_next_msg is false; cadence
\* milliseconds have passed since the previous call
DoAnimation ==
    /\ fetch_next_msg = FALSE
    /\ \E d \in TailDelays, rnd \in RndChoices(msg_context) :
       \E l_millis \in {ULongAdd(clock, cadence)} :
       \E tail_millis \in {ULongAdd(l_millis, d)} :
       \E r \in {do_animation(msg_context, display_buffer, fetch_next_msg,
                               l_millis, tail_millis, rnd)} :
              /\ msg_context' = r.c
              /\ display_buffer' = r.b
              /\ fetch_next_msg' = r.f
              /\ clock' = l_millis
              /\ call' = [op |-> "tick", empty |-> FALSE, ret |-> r.ret,
                          done |-> r.done, tail |-> r.tail, ev |-> r.ev,
                          l_millis |-> l_millis,
                          tail_millis |-> IF r.ret THEN l_millis ELSE tail_millis]
              /\ count' = [e \in Events |-> count[e] + (IF e \in r.ev THEN 1 ELSE 0)]
    /\ UNCHANGED <<cadence, starts, args, saved, probe>>

\* the first message after power-up
FirstStart ==
    /\ starts = 0
    /\ \E routine \in Routines, animation_speed \in Speeds,
          pause_interval \in Pauses, msg \in Messages \cup {<<>>} :
          StartAnimation(routine, animation_speed, pause_interval, msg)

Next == FirstStart \/ DoAnimation

Spec == Init /\ [][Next]_vars

\* ------------------------------------------------------------------------
\* Message after message: every start_animation but the first finds what the
\* previous animation left in msg_context and display_buffer
\* ------------------------------------------------------------------------
RestartRoutines == {5, 14, 16, 19}
RestartPauses == {0, 1, 66}

InitRestart ==
    /\ display_buffer = matrix_fill_buffer(0)
    /\ Idle
    /\ clock = ULong(5000)
    /\ cadence = 150
    /\ saved = BlankBuffer
    /\ probe = NoProbe

NextStart ==
    /\ starts < MaxStarts
    /\ \E routine \in RestartRoutines, pause_interval \in RestartPauses,
          msg \in {Msg(1), <<>>} :
          StartAnimation(routine, 0, pause_interval, msg)

NextRestart == NextStart \/ DoAnimation

SpecRestart == InitRestart /\ [][NextRestart]_vars

\* ------------------------------------------------------------------------
\* Buffer round trips: rotate forth some number of times, then back
\* ------------------------------------------------------------------------
Opposite(dir) ==
    CASE dir = DIRECTION_LEFT -> DIRECTION_RIGHT
      [] dir = DIRECTION_RIGHT -> DIRECTION_LEFT
      [] dir = DIRECTION_UP -> DIRECTION_DOWN
      [] dir = DIRECTION_DOWN -> DIRECTION_UP

\* buffer contents the round trips start from: single pixels at the two
\* edges, a dense pattern that differs in every row and zone, a drawn text
BufferPatterns ==
    {matrix_draw_pixel(BlankBuffer, 0, 0, 1),
     matrix_draw_pixel(BlankBuffer, MATRIX_COLUMNS - 1, MATRIX_ROWS - 1, 1),
     Stored([row \in Rows |-> [zone \in Zones |-> (row * 37 + zone * 101 + 129) % 256]]),
     matrix_draw_text(matrix_fill_buffer(0), Msg(MaxMsgLen), MaxMsgLen,
                      DT_ALIGN_RIGHT, DT_STYLE_NORMAL)}

InitRotate ==
    /\ display_buffer \in BufferPatterns
    /\ saved = display_buffer
    /\ probe \in {[dir |-> d, forth |-> 0, back |-> 0] :
                    d \in {DIRECTION_LEFT, DIRECTION_RIGHT}}
    /\ Idle
    /\ clock = ULong(0)
    /\ cadence = 0

RotateForth ==
    /\ probe.back = 0
    /\ probe.forth < MATRIX_COLUMNS
    /\ display_buffer' = matrix_rotate_buffer(display_buffer, probe.dir)
    /\ probe' = [probe EXCEPT !.forth = probe.forth + 1]
    /\ UNCHANGED <<msg_context, fetch_next_msg, clock, cadence, starts, args, call,
                   count, saved>>

RotateBack ==
    /\ probe.back < probe.forth
    /\ display_buffer' = matrix_rotate_buffer(display_buffer, Opposite(probe.dir))
    /\ probe' = [probe EXCEPT !.back = probe.back + 1]
    /\ UNCHANGED <<msg_context, fetch_next_msg, clock, cadence, starts, args, call,
                   count, saved>>

NextRotate == RotateForth \/ RotateBack

SpecRotate == InitRotate /\ [][NextRotate]_vars

\* ------------------------------------------------------------------------
\* Properties
\* ------------------------------------------------------------------------
\* a message is armed: the last start_animation call had a non-empty message
Armed == starts > 0 /\ Len(args.msg) > 0

\* the step is a do_animation call / a start_animation call
TickStep == call'.op = "tick"
StartStep == starts' = starts + 1

\* left-shift steps of the buffer made since the message was armed
ShiftSteps == count["shiftin"] + count["shiftout"]

\* an animation armed as routine 0
Routine0Run == Armed /\ args.routine = 0

\* C1 as stated: in routine 0 with a message of length L the completion flag
\* is set from the (L*FONT_PITCH + MATRIX_COLUMNS)-th left-shift step on, and
\* not before.
C1_DoneAtLastColumn ==
    Routine0Run =>
        (fetch_next_msg <=>
            ShiftSteps >= Len(args.msg) * FONT_PITCH + MATRIX_COLUMNS)

\* C1, amended: in routine 0 with a message of length L the completion flag is
\* set exactly when the (MATRIX_COLUMNS + 1)-th trailing shift has been made;
\* the trailing shifts start after at least L*FONT_PITCH character-column
\* shift-ins, and after exactly L*FONT_PITCH of them when the first-tick
\* initialisation ran once, so that completion then comes with left-shift
\* step number L*FONT_PITCH + MATRIX_COLUMNS + 1.
C1_DoneOneShiftLater ==
    Routine0Run =>
        /\ fetch_next_msg <=> count["shiftout"] = MATRIX_COLUMNS + 1
        /\ count["shiftout"] <= MATRIX_COLUMNS + 1
        /\ count["shiftout"] > 0 => count["shiftin"] >= Len(args.msg) * FONT_PITCH
        /\ count["init"] <= 1 => count["shiftin"] <= Len(args.msg) * FONT_PITCH
        /\ (fetch_next_msg /\ count["init"] = 1) =>
               ShiftSteps = Len(args.msg) * FONT_PITCH + MATRIX_COLUMNS + 1

C1_Witness ==
    /\ Routine0Run
    /\ fetch_next_msg
    /\ call.op = "tick" /\ call.done /\ "shiftout" \in call.ev
    /\ count["init"] = 1
    /\ ShiftSteps = Len(args.msg) * FONT_PITCH + MATRIX_COLUMNS + 1

\* what every start_animation call with a non-empty message does, whatever
\* the claim about the scratch counters
StartRecords ==
    /\ msg_context'.state = 0
    /\ msg_context'.anim_prev_millis = ULong(0)
    /\ msg_context'.delay_prev_millis = clock
    /\ msg_context'.routine = args'.routine
    /\ msg_context'.animation_speed = args'.animation_speed
    /\ msg_context'.interval = PauseToInterval(args'.pause_interval)
    /\ msg_context'.msg_ptr = args'.msg
    /\ msg_context'.msg_length = Len(args'.msg)
    /\ fetch_next_msg' = FALSE

C3_PacmanHandsOver ==
    [][TickStep =>
           /\ msg_context.routine = 19 =>
                  /\ ~fetch_next_msg'
                  /\ ~call'.done /\ ~call'.tail
                  /\ msg_context'.routine \in {19, 0}
           /\ (msg_context.routine = 19 /\ msg_context'.routine = 0) =>
                  /\ msg_context.tmp_1 = -8
                  /\ display_buffer' = BlankBuffer
                  /\ count'["handover"] = 1
           /\ msg_context'.routine = 19 => msg_context.routine = 19
           /\ (args.routine = 19 /\ fetch_next_msg') =>
                  /\ msg_context.routine = 0
                  /\ count["handover"] = 1
                  /\ call'.done /\ ~call'.tail
                  /\ "shiftout" \in call'.ev]_vars

C3_Witness ==
    /\ Armed /\ args.routine = 19
    /\ msg_context.routine = 0
    /\ count["handover"] = 1
    /\ fetch_next_msg
    /\ call.op = "tick" /\ "shiftout" \in call.ev

\* C4 as stated: routines 11 and 12 do not signal completion while the
\* sub-state is still 0.
C4_NoDoneBeforeDraw ==
    (Armed /\ msg_context.routine \in {11, 12} /\ msg_context.state = 0)
        => ~fetch_next_msg

\* C5 as stated: routine 16 does not signal completion while the sub-state
\* has not passed the last character index kept in tmp_1.
C5_NoDoneWhileSliding ==
    (Armed /\ msg_context.routine = 16 /\ msg_context.state <= msg_context.tmp_1)
        => ~fetch_next_msg

\* C6: a do_animation call that runs routine 0 or 1 returns before the pause
\* tail, so the pause interval never sets the completion flag; the flag is
\* set only by the end test of the trailing shift-out.
C6_ScrollSkipsTail ==
    [][(TickStep /\ msg_context.routine \in {0, 1}) =>
           /\ call'.ret
           /\ ~call'.tail
           /\ fetch_next_msg' =>
                  /\ call'.done
                  /\ "shiftout" \in call'.ev
                  /\ ToUInt(msg_context.state)
                        >= ToUInt(msg_context.msg_length + MATRIX_COLUMNS)]_vars

\* a scroll tick on which the pause interval had run out and nothing completed
C6_Witness ==
    /\ Armed /\ args.routine \in {0, 1}
    /\ call.op = "tick" /\ "shiftin" \in call.ev
    /\ PauseElapsed(msg_context, call.tail_millis)
    /\ ~fetch_next_msg

\* C7 as stated: in routines 2..10 and 13 a do_animation call sets the
\* completion flag if and only if the time since the pause-start timestamp
\* exceeds pause_interval * 1000 milliseconds.
C7_TailAfterPauseSeconds ==
    (Armed /\ call.op = "tick" /\ msg_context.routine \in (2 .. 10) \cup {13}) =>
        (fetch_next_msg <=>
            ULongGT(ULongSub(call.tail_millis, msg_context.delay_prev_millis),
                    args.pause_interval * 1000))

\* the toggle threshold of the blinking and the inverting routines
ToggleThreshold(c) ==
    IF c.routine \in {5, 6, 7} THEN 200 + (c.animation_speed * 100)
                               ELSE 400 + (c.animation_speed * 100)

\* C8: in the blinking and inverting routines a do_animation call changes the
\* sub-state at most by one toggle, and only when the time since the last
\* draw exceeds the threshold; the toggle clears the last-tick timestamp, so
\* the call after a toggle redraws and does not toggle again, however many
\* periods have elapsed.
C8_OneToggle ==
    [][(TickStep /\ msg_context.routine \in 5 .. 10) =>
           /\ msg_context'.state \in {msg_context.state, LogicalNot(msg_context.state)}
           /\ msg_context'.state # msg_context.state =>
                  /\ ~ULongIsZero(msg_context.anim_prev_millis)
                  /\ ULongGT(Elapsed(msg_context, call'.l_millis),
                             ToggleThreshold(msg_context))
                  /\ ULongIsZero(msg_context'.anim_prev_millis)
                  /\ "toggle" \in call'.ev
           /\ (call.op = "tick" /\ "toggle" \in call.ev) =>
                  /\ msg_context'.state = msg_context.state
                  /\ "draw" \in call'.ev]_vars

\* a toggle made when more than two periods had elapsed since the draw
C8_Witness ==
    /\ Armed /\ msg_context.routine \in 5 .. 10
    /\ call.op = "tick" /\ "toggle" \in call.ev
    /\ msg_context.state = 1
    /\ cadence > 2 * ToggleThreshold(msg_context)

\* C9: start_animation with an empty message records the length 0 and leaves
\* the buffer, both timestamps, the sub-state and the completion flag alone.
C9_EmptyStartKeeps ==
    [][(StartStep /\ Len(args'.msg) = 0) =>
           /\ msg_context'.msg_length = 0
           /\ display_buffer' = display_buffer
           /\ msg_context'.anim_prev_millis = msg_context.anim_prev_millis
           /\ msg_context'.delay_prev_millis = msg_context.delay_prev_millis
           /\ msg_context'.state = msg_context.state
           /\ fetch_next_msg' = fetch_next_msg]_vars

\* an empty start after an animation that left a sub-state and timestamps
C9_Witness ==
    /\ call.op = "start" /\ call.empty
    /\ starts = 2
    /\ msg_context.msg_length = 0
    /\ msg_context.state # 0
    /\ ~ULongIsZero(msg_context.anim_prev_millis)
    /\ msg_context.delay_prev_millis # clock
    /\ fetch_next_msg

\* C10: k rotations in one direction followed by k rotations in the opposite
\* direction give back the buffer, for every k in 1 .. MATRIX_COLUMNS.
C10_RotateRoundTrip ==
    (probe.forth \in 1 .. MATRIX_COLUMNS /\ probe.back = probe.forth)
        => display_buffer = saved

\* a round trip of MATRIX_COLUMNS - 1 rotations over a buffer that is not
\* invariant under rotation
C10_Witness ==
    /\ probe.forth = MATRIX_COLUMNS - 1
    /\ probe.back = probe.forth
    /\ saved # BlankBuffer
    /\ matrix_rotate_buffer(saved, probe.dir) # saved
    /\ display_buffer = saved

\* C11: every rotation to the left moves the pixel of column c+1 to column c
\* in every row, with the pixel of column 0 re-entering at column
\* MATRIX_COLUMNS-1, and MATRIX_COLUMNS rotations to the left give back the
\* buffer they started from.
C11_RotateLeftPeriod ==
    [][(probe.dir = DIRECTION_LEFT /\ probe'.forth = probe.forth + 1) =>
           /\ \A row \in Rows : \A column \in Columns :
                  getPixel(display_buffer', column, row)
                      = getPixel(display_buffer, (column + 1) % MATRIX_COLUMNS, row)
           /\ probe'.forth = MATRIX_COLUMNS => display_buffer' = saved]_vars

\* MATRIX_COLUMNS rotations to the left made over a buffer that a single
\* rotation changes
C11_Witness ==
    /\ probe.dir = DIRECTION_LEFT
    /\ probe.forth = MATRIX_COLUMNS /\ probe.back = 0
    /\ matrix_rotate_buffer(saved, DIRECTION_LEFT) # saved
    /\ display_buffer = saved

\* ------------------------------------------------------------------------
\* Buffer shifts: up to MaxShifts shifts in any directions, the last one
\* possibly followed by the shift in the opposite direction
\* ------------------------------------------------------------------------
MaxShifts == 3

Directions == {DIRECTION_LEFT, DIRECTION_RIGHT, DIRECTION_UP, DIRECTION_DOWN}

ShiftPatterns == BufferPatterns \cup {matrix_fill_buffer(255)}

InitShift ==
    /\ display_buffer \in ShiftPatterns
    /\ saved = display_buffer
    /\ probe = NoProbe
    /\ Idle
    /\ clock = ULong(0)
    /\ cadence = 0

\* saved keeps the buffer as it was before the shift
ShiftForth(dir) ==
    /\ probe.forth < MaxShifts
    /\ saved' = display_buffer
    /\ display_buffer' = matrix_shift_buffer(display_buffer, dir)
    /\ probe' = [dir |-> dir, forth |-> probe.forth + 1, back |-> 0]
    /\ UNCHANGED <<msg_context, fetch_next_msg, clock, cadence, starts, args, call, count>>

ShiftBack ==
    /\ probe.forth > 0
    /\ probe.back = 0
    /\ display_buffer' = matrix_shift_buffer(display_buffer, Opposite(probe.dir))
    /\ probe' = [probe EXCEPT !.back = 1]
    /\ UNCHANGED <<msg_context, fetch_next_msg, clock, cadence, starts, args, call,
                   count, saved>>

NextShift == (\E dir \in Directions : ShiftForth(dir)) \/ ShiftBack

SpecShift == InitShift /\ [][NextShift]_vars

\* the pixel (column, row) lies on the line that a shift in direction dir
\* pushes off the buffer
OnLostLine(dir, column, row) ==
    CASE dir = DIRECTION_LEFT -> column = 0
      [] dir = DIRECTION_RIGHT -> column = MATRIX_COLUMNS - 1
      [] dir = DIRECTION_UP -> row = 0
      [] dir = DIRECTION_DOWN -> row = MATRIX_ROWS - 1

\* some pixel of buf is set on the line that a shift in direction dir pushes off
LostLineLit(buf, dir) ==
    \E row \in Rows : \E column \in Columns :
        OnLostLine(dir, column, row) /\ getPixel(buf, column, row) = 1

\* after a shift and the opposite shift, the pushed-off line is all zero and
\* every other pixel has its value from before the two shifts
BackExceptLostLine ==
    \A row \in Rows : \A column \in Columns :
        getPixel(display_buffer, column, row)
            = IF OnLostLine(probe.dir, column, row) THEN 0
              ELSE getPixel(saved, column, row)

\* C12 as stated: for every direction, a shift followed by the opposite shift
\* does not give back the buffer; the pushed-off line comes back all zero and
\* every other pixel has its old value.
C12_NeverRestores ==
    probe.back = 1 => (display_buffer # saved /\ BackExceptLostLine)

\* C12, amended: for every direction, after a shift followed by the opposite
\* shift the pushed-off line is all zero and every other pixel has its old
\* value; the buffer is given back exactly when no pixel was set on the
\* pushed-off line.
C12_LosesLostLine ==
    probe.back = 1 =>
        /\ BackExceptLostLine
        /\ display_buffer = saved <=> ~LostLineLit(saved, probe.dir)

C12_Witness ==
    /\ probe.back = 1
    /\ LostLineLit(saved, probe.dir)
    /\ display_buffer # saved
    /\ probe.dir = DIRECTION_DOWN

\* the direction of the shift made by a step of the shift runs
StepDir == IF probe'.back = 1 /\ probe.back = 0 THEN Opposite(probe.dir) ELSE probe'.dir

\* C20: a shift to the left gives every pixel the old value of its right
\* neighbour and clears the last column; to the right, the old value of the
\* left neighbour and column 0 cleared; up, the old value of the pixel below
\* and the last row cleared; down, the old value of the pixel above and row 0
\* cleared; nothing wraps around.
C20_ShiftMovesPixels ==
    [][probe' # probe =>
           \A row \in Rows : \A column \in Columns :
               getPixel(display_buffer', column, row) =
                   CASE StepDir = DIRECTION_LEFT ->
                            IF column < MATRIX_COLUMNS - 1
                            THEN getPixel(display_buffer, column + 1, row) ELSE 0
                     [] StepDir = DIRECTION_RIGHT ->
                            IF column > 0
                            THEN getPixel(display_buffer, column - 1, row) ELSE 0
                     [] StepDir = DIRECTION_UP ->
                            IF row < MATRIX_ROWS - 1
                            THEN getPixel(display_buffer, column, row + 1) ELSE 0
                     [] StepDir = DIRECTION_DOWN ->
                            IF row > 0
                            THEN getPixel(display_buffer, column, row - 1) ELSE 0]_vars

\* a shift to the right that carried a set pixel over a zone boundary and
\* pushed a set pixel off the last column
C20_Witness ==
    /\ probe.forth > 0 /\ probe.back = 0
    /\ probe.dir = DIRECTION_RIGHT
    /\ getPixel(saved, 7, 0) = 1 /\ getPixel(display_buffer, 8, 0) = 1
    /\ getPixel(saved, MATRIX_COLUMNS - 1, 0) = 1
    /\ getPixel(saved, 0, 0) = 1 /\ getPixel(display_buffer, 0, 0) = 0

\* ------------------------------------------------------------------------
\* Text layout: matrix_draw_text called once on a cleared buffer with a text
\* of count characters, count up to MaxCount
\* ------------------------------------------------------------------------
MaxCount == 50

\* the three alignments and one value that is none of them
Formats == {DT_ALIGN_LEFT, DT_ALIGN_CENTER, DT_ALIGN_RIGHT, 3}

InitLayout ==
    /\ display_buffer = matrix_fill_buffer(0)
    /\ saved = BlankBuffer
    /\ probe \in {[count |-> n, format |-> f, laid |-> FALSE, column |-> 0,
                   start_index |-> 0] : n \in 0 .. MaxCount, f \in Formats}
    /\ Idle
    /\ clock = ULong(0)
    /\ cadence = 0

\* column and start_index are the values the drawing loop starts from
DrawText ==
    /\ ~probe.laid
    /\ probe' = [probe EXCEPT !.laid = TRUE,
                              !.column = TextColumn(probe.count, probe.format),
                              !.start_index = TextStartIndex(probe.count, probe.format)]
    /\ display_buffer' = matrix_draw_text(display_buffer, Msg(probe.count), probe.count,
                                          probe.format, DT_STYLE_NORMAL)
    /\ UNCHANGED <<msg_context, fetch_next_msg, clock, cadence, starts, args, call,
                   count, saved>>

NextLayout == DrawText

SpecLayout == InitLayout /\ [][NextLayout]_vars

\* half of the pixel width of n characters, rounded down, by parity
HalfWidth(n) ==
    IF n % 2 = 0 THEN FONT_PITCH * (n \div 2)
    ELSE FONT_PITCH * ((n - 1) \div 2) + ((FONT_PITCH - 1) \div 2)

\* C13: for every count >= 0 the drawing loop of matrix_draw_text starts at
\* column 0, index 0 for LEFT; at column MATRIX_COLUMNS/2 minus half the text
\* width rounded down, index 0, for CENTER when the text fits, else at column
\* 0, index (count - MATRIX_MAX_CHRS)/2 rounded down; at column MATRIX_COLUMNS
\* minus the text width, index 0, for RIGHT when the text fits, else at column
\* 0, index count - MATRIX_MAX_CHRS; the start column is within
\* 0 .. MATRIX_COLUMNS.
C13_TextLayout ==
    probe.laid =>
        /\ probe.column \in 0 .. MATRIX_COLUMNS
        /\ probe.format = DT_ALIGN_LEFT =>
               probe.column = 0 /\ probe.start_index = 0
        /\ (probe.format = DT_ALIGN_CENTER /\ probe.count <= MATRIX_MAX_CHRS) =>
               /\ probe.column + HalfWidth(probe.count) = MATRIX_COLUMNS \div 2
               /\ probe.start_index = 0
        /\ (probe.format = DT_ALIGN_CENTER /\ probe.count > MATRIX_MAX_CHRS) =>
               /\ probe.column = 0
               /\ 2 * probe.start_index \in
                      {probe.count - MATRIX_MAX_CHRS, probe.count - MATRIX_MAX_CHRS - 1}
        /\ (probe.format = DT_ALIGN_RIGHT /\ probe.count <= MATRIX_MAX_CHRS) =>
               /\ probe.column + probe.count * FONT_PITCH = MATRIX_COLUMNS
               /\ probe.start_index = 0
        /\ (probe.format = DT_ALIGN_RIGHT /\ probe.count > MATRIX_MAX_CHRS) =>
               /\ probe.column = 0
               /\ probe.start_index + MATRIX_MAX_CHRS = probe.count

\* an odd number of characters centred, and drawn from the column laid out
C13_Witness ==
    /\ probe.laid
    /\ probe.format = DT_ALIGN_CENTER
    /\ probe.count = 5
    /\ probe.column = 48
    /\ \E row \in Rows : getPixel(display_buffer, probe.column, row) = 1
    /\ \A row \in Rows : \A column \in 0 .. probe.column - 1 :
           getPixel(display_buffer, column, row) = 0

\* ------------------------------------------------------------------------
\* Pixel writes: up to MaxDraws calls of matrix_draw_pixel with coordinates
\* at, next to and beyond the edges of the matrix and of a zone
\* ------------------------------------------------------------------------
MaxDraws == 2

PixelColumns == {-1, 0, 7, 8, MATRIX_COLUMNS - 1, MATRIX_COLUMNS}
PixelRows == {-1, 0, MATRIX_ROWS - 1, MATRIX_ROWS}
PixelValues == {0, 1, 2}

NoPixel == [column |-> 0, row |-> 0, value |-> 0, draws |-> 0]

InitPixel ==
    /\ display_buffer \in ShiftPatterns
    /\ saved = display_buffer
    /\ probe = NoPixel
    /\ Idle
    /\ clock = ULong(0)
    /\ cadence = 0

\* saved keeps the buffer as it was before the call
DrawPixel(column, row, value) ==
    /\ probe.draws < MaxDraws
    /\ saved' = display_buffer
    /\ display_buffer' = matrix_draw_pixel(display_buffer, column, row, value)
    /\ probe' = [column |-> column, row |-> row, value |-> value,
                 draws |-> probe.draws + 1]
    /\ UNCHANGED <<msg_context, fetch_next_msg, clock, cadence, starts, args, call, count>>

NextPixel ==
    \E column \in PixelColumns, row \in PixelRows, value \in PixelValues :
        DrawPixel(column, row, value)

SpecPixel == InitPixel /\ [][NextPixel]_vars

\* the coordinates of the last call lie on the matrix
PixelOnMatrix == probe.column \in Columns /\ probe.row \in Rows

\* C14: matrix_draw_pixel leaves the buffer as it is when the column or the
\* row lies outside the matrix; otherwise the bit column mod 8 of the byte
\* (row, column div 8) is 1 if value is not 0 and 0 if it is, and every other
\* bit of the buffer is as before.
C14_DrawPixelOneBit ==
    probe.draws > 0 =>
        IF ~PixelOnMatrix
        THEN display_buffer = saved
        ELSE \A row \in Rows : \A zone \in Zones :
                 /\ display_buffer[row][zone] \in 0 .. 255
                 /\ \A bit \in 0 .. 7 :
                        bitRead(display_buffer[row][zone], bit) =
                            IF /\ row = probe.row
                               /\ zone = probe.column \div 8
                               /\ bit = probe.column % 8
                            THEN (IF probe.value = 0 THEN 0 ELSE 1)
                            ELSE bitRead(saved[row][zone], bit)

\* the last pixel of the last row set by a value other than 1, in a buffer
\* that held other set pixels
C14_Witness ==
    /\ probe.draws > 0
    /\ probe.column = MATRIX_COLUMNS - 1 /\ probe.row = MATRIX_ROWS - 1
    /\ probe.value = 2
    /\ getPixel(saved, probe.column, probe.row) = 0
    /\ getPixel(display_buffer, probe.column, probe.row) = 1
    /\ saved # BlankBuffer

\* ------------------------------------------------------------------------
\* The random routine and routine ids the switch does not handle: one
\* start_animation, the tick that re-picks or rejects the routine, and the
\* first tick of the routine picked
\* ------------------------------------------------------------------------
OtherRoutines == {20, 21, 255}

StartOther ==
    /\ starts = 0
    /\ \E routine \in OtherRoutines, animation_speed \in Speeds,
          pause_interval \in Pauses, msg \in Messages :
          StartAnimation(routine, animation_speed, pause_interval, msg)

\* no event has been counted yet: the routine picked has not run
TickOther ==
    /\ count = ZeroCount
    /\ DoAnimation

NextOther == StartOther \/ TickOther

SpecOther == Init /\ [][NextOther]_vars

\* C15: a do_animation call that finds routine 20 sets the routine to a value
\* in 0 .. 19 when the message has at most MATRIX_MAX_CHRS characters and to 0
\* otherwise; it changes neither the buffer nor the sub-state, the scratch
\* counters or the last-tick timestamp, which are as start_animation left
\* them, so the next call runs the first tick of the routine picked.
C15_RandomRepicks ==
    [][TickStep =>
           /\ msg_context.routine = 20 =>
                  /\ msg_context'.routine \in
                         (IF msg_context.msg_length <= MATRIX_MAX_CHRS
                          THEN 0 .. 19 ELSE {0})
                  /\ display_buffer' = display_buffer
                  /\ msg_context' = [msg_context EXCEPT !.routine = msg_context'.routine]
                  /\ msg_context'.state = 0
                  /\ ULongIsZero(msg_context'.anim_prev_millis)
                  /\ call'.ev = {}
           /\ (args.routine = 20 /\ msg_context.routine # 20) =>
                  /\ msg_context'.routine = msg_context.routine
                  /\ IF msg_context.routine = 15
                     THEN "dissolve" \in call'.ev /\ msg_context'.state = 1
                     ELSE "init" \in call'.ev]_vars

\* the first tick of a routine picked at random for a message that fits
C15_Witness ==
    /\ Armed /\ args.routine = 20
    /\ msg_context.msg_length <= MATRIX_MAX_CHRS
    /\ msg_context.routine = 17
    /\ call.op = "tick" /\ "init" \in call.ev
    /\ ~fetch_next_msg

\* C16: a do_animation call that finds a routine id outside 0 .. 20 sets the
\* completion flag on that call and changes neither the buffer nor any field
\* of msg_context.
C16_UnhandledCompletes ==
    [][(TickStep /\ msg_context.routine \notin 0 .. 20) =>
           /\ fetch_next_msg'
           /\ call'.done
           /\ display_buffer' = display_buffer
           /\ msg_context' = msg_context]_vars

\* an unhandled routine completed on a call made before the pause interval
\* had run out
C16_Witness ==
    /\ Armed /\ msg_context.routine \notin 0 .. 20
    /\ call.op = "tick"
    /\ ~PauseElapsed(msg_context, ULongAdd(call.l_millis, 1))
    /\ fetch_next_msg

\* ------------------------------------------------------------------------
\* The refresh interrupt against a running matrix_shift_buffer: the shift is
\* taken statement by statement over the bytes of display_buffer, and
\* refresh_matrix_row may run between any two statements
\* ------------------------------------------------------------------------
MaxRefresh == 1

RefreshDirs == {DIRECTION_LEFT, DIRECTION_UP}

\* a pattern that differs in every row and zone, and a drawn text
RefreshPatterns ==
    {Stored([row \in Rows |-> [zone \in Zones |-> (row * 37 + zone * 101 + 129) % 256]]),
     matrix_draw_text(matrix_fill_buffer(255), Msg(MaxMsgLen), MaxMsgLen,
                      DT_ALIGN_LEFT, DT_STYLE_NORMAL)}

\* probe: the direction, the loop position of the shift (row, zone; step 0 is
\* the statement that shifts the byte, step 1 the bitWrite that carries a bit
\* in), whether the loops have ended, the row index of the interrupt, the
\* bytes it shifted out last and how often it ran
InitRefresh ==
    /\ display_buffer \in RefreshPatterns
    /\ saved = display_buffer
    /\ probe \in {[dir |-> d, row |-> 0, zone |-> 0, step |-> 0, ended |-> FALSE,
                   isr_row |-> r, shown |-> display_buffer[r], refreshes |-> 0] :
                    d \in RefreshDirs, r \in Rows}
    /\ Idle
    /\ clock = ULong(0)
    /\ cadence = 0

\* the loop position after the statement at (row, zone) has run
AfterByte(p) ==
    IF p.zone < MATRIX_MAX_ZONE_INDEX
    THEN [p EXCEPT !.zone = p.zone + 1, !.step = 0]
    ELSE IF p.row < MATRIX_ROWS - 1
    THEN [p EXCEPT !.row = p.row + 1, !.zone = 0, !.step = 0]
    ELSE [p EXCEPT !.ended = TRUE, !.step = 0]

\* one statement of the DIRECTION_LEFT loops
ShiftLeftStatement ==
    /\ probe.dir = DIRECTION_LEFT
    /\ IF probe.step = 0
       THEN /\ display_buffer' =
                   Stored([display_buffer EXCEPT ![probe.row][probe.zone] = ShiftRight1(@)])
            /\ probe' = IF probe.zone < MATRIX_MAX_ZONE_INDEX
                        THEN [probe EXCEPT !.step = 1]
                        ELSE AfterByte(probe)
       ELSE /\ display_buffer' =
                   Stored([display_buffer EXCEPT ![probe.row][probe.zone] =
                       bitWrite(@, 7, bitRead(display_buffer[probe.row][probe.zone + 1], 0))])
            /\ probe' = AfterByte(probe)

\* one statement of the DIRECTION_UP loops
ShiftUpStatement ==
    /\ probe.dir = DIRECTION_UP
    /\ display_buffer' =
           Stored([display_buffer EXCEPT ![probe.row][probe.zone] =
               IF probe.row < 7 THEN display_buffer[probe.row + 1][probe.zone] ELSE 0])
    /\ probe' = AfterByte(probe)

ShiftStatement ==
    /\ ~probe.ended
    /\ ShiftLeftStatement \/ ShiftUpStatement
    /\ UNCHANGED <<msg_context, fetch_next_msg, clock, cadence, starts, args, call,
                   count, saved>>

\* the interrupt: advance to the next row and shift out its bytes
RefreshRow ==
    /\ probe.refreshes < MaxRefresh
    /\ \E next_row \in {IF probe.isr_row + 1 = MATRIX_ROWS THEN 0 ELSE probe.isr_row + 1} :
           probe' = [probe EXCEPT !.isr_row = next_row,
                                  !.shown = display_buffer[next_row],
                                  !.refreshes = probe.refreshes + 1]
    /\ UNCHANGED <<display_buffer, msg_context, fetch_next_msg, clock, cadence, starts,
                   args, call, count, saved>>

NextRefresh == ShiftStatement \/ RefreshRow

SpecRefresh == InitRefresh /\ [][NextRefresh]_vars

\* the statements taken one by one end in the buffer matrix_shift_buffer gives
ShiftStatementsAgree ==
    probe.ended => display_buffer = matrix_shift_buffer(saved, probe.dir)

\* C17 as stated: every row the refresh interrupt shifts out equals that row
\* either as it was before the shift in progress or as it is after it.
C17_RowsNeverTorn ==
    probe.refreshes > 0 =>
        probe.shown \in {saved[probe.isr_row],
                         matrix_shift_buffer(saved, probe.dir)[probe.isr_row]}

\* ------------------------------------------------------------------------
\* The engine started shortly before millis() wraps from 2^32 - 1 to 0
\* ------------------------------------------------------------------------
WrapClocks == {ULongSub(ULong(0), ULong(25)), ULongSub(ULong(0), ULong(304))}

InitWrap ==
    /\ display_buffer = matrix_fill_buffer(0)
    /\ Idle
    /\ clock \in WrapClocks
    /\ cadence \in Cadences
    /\ saved = BlankBuffer
    /\ probe = NoProbe

\* every routine that compares elapsed times
WrapRoutines == Routines \cup {14, 17, 18}

WrapMessages == {Msg(n) : n \in 1 .. MaxMsgLen}

StartWrap ==
    /\ starts = 0
    /\ \E routine \in WrapRoutines, animation_speed \in Speeds,
          pause_interval \in Pauses, msg \in WrapMessages :
          StartAnimation(routine, animation_speed, pause_interval, msg)

NextWrap == StartWrap \/ DoAnimation

SpecWrap == InitWrap /\ [][NextWrap]_vars

\* Milliseconds since a point 3000 ms before the wrap, as a plain number: the
\* runs start less than 3000 ms before the wrap and end long before the
\* clock comes round again, so differences of these are true elapsed times.
TrueMillis(t) == ULongAdd(t, 3000).hi * UINT_MOD + ULongAdd(t, 3000).lo

TrueElapsed(last, now) == TrueMillis(now) - TrueMillis(last)

\* the threshold a routine compares the time since its last step with
StepThreshold(c) ==
    CASE c.routine \in {0, 1} -> (c.animation_speed * 10) + 15
      [] c.routine \in 5 .. 7 -> 200 + (c.animation_speed * 100)
      [] c.routine \in 8 .. 12 -> 400 + (c.animation_speed * 100)
      [] c.routine = 13 -> 90 + (c.animation_speed * 100)
      [] c.routine = 14 -> IF c.state = 1 THEN c.interval ELSE 1
      [] c.routine = 16 -> 20 + (c.animation_speed * 10)
      [] c.routine \in {17, 18} -> IF c.state = 0 THEN 2000 ELSE 90
      [] c.routine = 19 -> 100
      [] OTHER -> 0

\* the timestamp the step test measures from
StepSince(c) ==
    IF c.routine = 14 /\ c.state = 1 THEN c.delay_prev_millis ELSE c.anim_prev_millis

\* the calls in which a routine evaluates its step test
StepTested(c) ==
    /\ ~ULongIsZero(c.anim_prev_millis)
    /\ CASE c.routine \in {0, 1} \cup (5 .. 10) \cup {13} -> TRUE
         [] c.routine \in {11, 12} -> c.state = 0
         [] c.routine = 14 -> c.state \in 0 .. 2
         [] c.routine = 16 -> c.state <= c.tmp_1
         [] c.routine \in {17, 18} -> c.state \in {0, 1}
         [] c.routine = 19 -> c.state < 2
         [] OTHER -> FALSE

StepEvents == {"shiftin", "skip", "shiftout", "toggle", "rowshift", "draw", "block",
               "slide", "frame", "pad", "state", "rotate"}

\* C18: every elapsed-time test is evaluated modulo 2^32: also when millis()
\* has wrapped between the stored timestamp and the present reading, a
\* routine's step fires exactly when the true elapsed time exceeds its
\* threshold, and the pause tail exactly when the true time since the start
\* exceeds the interval.
C18_ElapsedModulo ==
    [][TickStep =>
           /\ StepTested(msg_context) =>
                  (msg_context'.anim_prev_millis # msg_context.anim_prev_millis
                      <=> TrueElapsed(StepSince(msg_context), call'.l_millis)
                              > StepThreshold(msg_context))
           /\ ~call'.ret =>
                  (call'.tail
                      <=> TrueElapsed(msg_context.delay_prev_millis, call'.tail_millis)
                              > msg_context.interval)]_vars

\* a step fired by the first reading after the wrap: the timestamp it was
\* compared with was taken before the wrap and is the larger number
C18_Witness ==
    /\ Armed /\ call.op = "tick" /\ call.ret
    /\ call.ev \cap StepEvents # {}
    /\ msg_context.anim_prev_millis = call.l_millis
    /\ call.l_millis.hi = 0 /\ call.l_millis.lo > 0 /\ call.l_millis.lo < cadence

\* ------------------------------------------------------------------------
\* loop(): decoding the |routine|speed| prefix of a fetched message
\* ------------------------------------------------------------------------
\* Text is a sequence of character codes; a char pointer is an index counted
\* from 0, and CharAt gives the terminating 0 at the end of the text.
BAR == 124

IsSpace(ch) == ch = 32 \/ ch \in 9 .. 13
IsDigit(ch) == ch \in 48 .. 57

RECURSIVE SkipSpaces(_, _)
SkipSpaces(text, i) == IF IsSpace(CharAt(text, i)) THEN SkipSpaces(text, i + 1) ELSE i

RECURSIVE ReadDigits(_, _, _)
ReadDigits(text, i, acc) ==
    IF IsDigit(CharAt(text, i))
    THEN ReadDigits(text, i + 1, (acc * 10) + (CharAt(text, i) - 48))
    ELSE [value |-> acc, end |-> i]

\* strtol(nptr, &end, 10) for numbers of a few digits: white space, an
\* optional sign, decimal digits; without a digit the value is 0 and end is
\* nptr itself
strtol(text, nptr) ==
    LET s == SkipSpaces(text, nptr)
        d == IF CharAt(text, s) \in {43, 45} THEN s + 1 ELSE s
        r == ReadDigits(text, d, 0)
    IN  IF r.end = d
        THEN [value |-> 0, end |-> nptr]
        ELSE [value |-> IF CharAt(text, s) = 45 THEN 0 - r.value ELSE r.value,
              end |-> r.end]

\* the test that accepts a decoded prefix; routine and anim_speed are
\* unsigned int
PrefixAccepted(routine, anim_speed, closing) ==
    /\ routine >= 0 /\ routine <= 20
    /\ anim_speed >= 1 /\ anim_speed <= 8
    /\ closing = BAR

\* routine, anim_speed and p_message as loop() has them after the decoding
DecodeMessage(msg_buffer) ==
    IF CharAt(msg_buffer, 0) = BAR
    THEN LET r1 == strtol(msg_buffer, 1)
             r2 == strtol(msg_buffer, r1.end + 1)
             routine == ToUInt(r1.value)
             anim_speed == ToUInt(r2.value)
         IN  [routine |-> routine, anim_speed |-> anim_speed,
              p_message |-> IF PrefixAccepted(routine, anim_speed,
                                              CharAt(msg_buffer, r2.end))
                            THEN SubSeq(msg_buffer, r2.end + 2, Len(msg_buffer))
                            ELSE msg_buffer]
    ELSE [routine |-> DEF_ANIM_RTN, anim_speed |-> DEF_ANIM_SPEED,
          p_message |-> msg_buffer]

\* the fetched messages: | routine | speed, with or without the closing |,
\* then the text H; and two messages without a prefix.  No message holds a
\* macro or a character outside ASCII.
PrefixRoutines == {<<48>>, <<51>>, <<50, 48>>, <<50, 49>>, <<45, 49>>, <<120>>}
PrefixSpeeds == {<<48>>, <<49>>, <<53>>, <<56>>, <<57>>, <<120>>}
LoopMessages ==
    {<<BAR>> \o r \o <<BAR>> \o s \o c \o <<72>> :
        r \in PrefixRoutines, s \in PrefixSpeeds, c \in {<<BAR>>, <<>>}}
    \cup {<<72, 73>>, <<72, BAR, 73>>}

\* the pause interval read from the datastore; 0 when the key is not set
PauseOverrides == {0, 1, 66}

\* probe: the message fetched into msg_buffer and the pause override
InitLoop ==
    /\ display_buffer = matrix_fill_buffer(0)
    /\ Idle
    /\ clock \in StartClocks
    /\ cadence \in Cadences
    /\ saved = BlankBuffer
    /\ probe \in [msg_buffer : LoopMessages, pause : PauseOverrides]

\* loop() with fetch_next_msg = true and a message in the datastore
LoopStart ==
    /\ starts = 0
    /\ \E d \in {DecodeMessage(probe.msg_buffer)} :
           StartAnimation(d.routine, d.anim_speed,
                          IF probe.pause > 0 THEN probe.pause ELSE DEF_PAUSE_INTERVAL,
                          d.p_message)

NextLoop == LoopStart

SpecLoop == InitLoop /\ [][NextLoop]_vars

\* the message starts with | and its prefix is not accepted
MalformedPrefix(msg_buffer) ==
    /\ CharAt(msg_buffer, 0) = BAR
    /\ DecodeMessage(msg_buffer).p_message = msg_buffer

\* C19 as stated: a message that starts with | and whose prefix is malformed
\* is started with the default routine 0 and the default speed 5, not with
\* the values read from the prefix.
C19_MalformedGetsDefaults ==
    (starts > 0 /\ MalformedPrefix(probe.msg_buffer)) =>
        /\ args.routine = DEF_ANIM_RTN
        /\ args.animation_speed = DEF_ANIM_SPEED

\* a well-formed prefix sets routine and speed and is stripped from the text
WellFormedOverrides ==
    (starts > 0 /\ CharAt(probe.msg_buffer, 0) = BAR
                /\ ~MalformedPrefix(probe.msg_buffer)) =>
        /\ args.routine \in 0 .. 20 /\ args.animation_speed \in 1 .. 8
        /\ args.msg = <<72>>

\* ------------------------------------------------------------------------
\* matrix_draw_chr, pixel by pixel as its two loops run
\* ------------------------------------------------------------------------
\* the k-th call of matrix_draw_pixel made by the loops: col = k div 8,
\* row = k mod 8
RECURSIVE DrawChrPixels(_, _, _, _, _)
DrawChrPixels(buf, column, idx, inv, k) ==
    IF k >= FONT_PITCH * MATRIX_ROWS
    THEN buf
    ELSE LET col == k \div MATRIX_ROWS
             row == k % MATRIX_ROWS
             d == bitRead(Font8x5(idx, col), row)
             drawn == matrix_draw_pixel(buf, col + column, row,
                                        IF inv THEN LogicalNot(d) ELSE d)
         IN  IF drawn = drawn THEN DrawChrPixels(drawn, column, idx, inv, k + 1) ELSE drawn

DrawChrLoops(buf, column, c, inv) == DrawChrPixels(buf, column, GlyphIndex(c), inv, 0)

\* columns left of, across and right of the matrix, and across a zone border
ChrColumns == {-6, -5, -3, 0, 6, MATRIX_COLUMNS - FONT_PITCH, MATRIX_COLUMNS - 2,
               MATRIX_COLUMNS - 1, MATRIX_COLUMNS, MATRIX_COLUMNS + 5}

\* char is a signed byte: codes below, in and above the font's range
ChrCodes == {-56, -1, 0, 31, 32, 72, 73, 126, 127}

\* probe: the arguments of the call made, and whether it has been made
InitChr ==
    /\ display_buffer \in ShiftPatterns
    /\ saved = display_buffer
    /\ probe = [column |-> 0, c |-> 0, inv |-> FALSE, drawn |-> FALSE]
    /\ Idle
    /\ clock = ULong(0)
    /\ cadence = 0

DrawChr(column, c, inv) ==
    /\ ~probe.drawn
    /\ saved' = display_buffer
    /\ display_buffer' = DrawChrLoops(display_buffer, column, c, inv)
    /\ probe' = [column |-> column, c |-> c, inv |-> inv, drawn |-> TRUE]
    /\ UNCHANGED <<msg_context, fetch_next_msg, clock, cadence, starts, args, call, count>>

NextChr == \E column \in ChrColumns, c \in ChrCodes, inv \in BOOLEAN : DrawChr(column, c, inv)

SpecChr == InitChr /\ [][NextChr]_vars

\* the band form of matrix_draw_chr used by the routines gives the buffer the
\* loops give
DrawChrAgrees ==
    probe.drawn => display_buffer = matrix_draw_chr(saved, probe.column, probe.c, probe.inv)

\* the code whose glyph is painted for the character code ch
PaintedCode(ch) == IF ch < FONT_FIRST_CHR \/ ch > FONT_LAST_CHR THEN UNKNOWN_GLYPH ELSE ch

\* C21: matrix_draw_chr(column, c, inv) changes only pixels whose column lies
\* in [column, column + FONT_PITCH) and on the matrix; each of these becomes
\* the font bit of the glyph, negated when inv is set; every other pixel is
\* unchanged, for columns left of and right of the matrix too; and a code
\* outside [FONT_FIRST_CHR, FONT_LAST_CHR] paints what the code 0x7F paints.
C21_DrawChrBand ==
    probe.drawn =>
        /\ \A x \in Columns : \A row \in Rows :
               getPixel(display_buffer, x, row) =
                   IF x >= probe.column /\ x < probe.column + FONT_PITCH
                   THEN LET d == bitRead(Font8x5(PaintedCode(probe.c) - FONT_TABLE_BASE,
                                                 x - probe.column), row)
                        IN  IF probe.inv THEN 1 - d ELSE d
                   ELSE getPixel(saved, x, row)
        /\ \A row \in Rows : \A zone \in Zones : display_buffer[row][zone] \in 0 .. 255
        /\ display_buffer = DrawChrLoops(saved, probe.column, UNKNOWN_GLYPH, probe.inv)
               \/ probe.c \in FONT_FIRST_CHR .. FONT_LAST_CHR

\* a code above the font's range drawn inverted across the right edge of a
\* buffer that was not blank: the columns on the matrix changed
C21_Witness ==
    /\ probe.drawn /\ probe.c = -56 /\ probe.inv
    /\ probe.column = MATRIX_COLUMNS - 2
    /\ saved # BlankBuffer
    /\ display_buffer # saved

\* ------------------------------------------------------------------------
\* The fast zap and the rolling text: one start_animation, then ticks; the
\* start clocks include one from which a tick reads millis() = 0
\* ------------------------------------------------------------------------
ZapRollRoutines == {14, 17, 18}

StartZapRoll ==
    /\ starts = 0
    /\ \E routine \in ZapRollRoutines, animation_speed \in Speeds,
          pause_interval \in Pauses, msg \in Messages :
          StartAnimation(routine, animation_speed, pause_interval, msg)

NextZapRoll == StartZapRoll \/ DoAnimation

SpecZapRoll == Init /\ [][NextZapRoll]_vars

\* C22: in routine 14 a do_animation call leaves the sub-state as it is or
\* advances it by one, within 0..3; every call returns before the pause tail;
\* the completion flag is set only by a call made in sub-state 3, and then
\* the buffer is blank, the shoot-out having shifted it left more than
\* COLUMNS - 1 times.
C22_ZapInOrder ==
    [][(TickStep /\ msg_context.routine = 14) =>
           /\ msg_context.state \in 0 .. 3
           /\ msg_context'.state \in {msg_context.state, msg_context.state + 1} \cap (0 .. 3)
           /\ call'.ret /\ ~call'.tail
           /\ fetch_next_msg' =>
                  /\ msg_context.state = 3
                  /\ display_buffer' = BlankBuffer
                  /\ count["shiftout"] > MATRIX_COLUMNS - 1]_vars

\* the zap of a message that was on the matrix has completed
C22_Witness ==
    /\ Armed /\ args.routine = 14
    /\ fetch_next_msg /\ call.op = "tick" /\ call.done
    /\ msg_context.state = 3
    /\ count["shiftin"] >= FONT_PITCH /\ count["shiftout"] > MATRIX_COLUMNS - 1

\* C23 as stated: routine 14 does not leave sub-state 1 until more than
\* pause_interval * 1000 ms have passed since sub-state 1 was entered.
C23_HoldSinceEntry ==
    [][(TickStep /\ msg_context.routine = 14 /\ msg_context.state = 1
                 /\ msg_context'.state = 2
                 /\ ~ULongIsZero(msg_context.anim_prev_millis)) =>
           ULongGT(ULongSub(call'.l_millis, msg_context.anim_prev_millis),
                   args.pause_interval * 1000)]_vars

\* ------------------------------------------------------------------------
\* The dissolve routine: the matrix still shows what the previous animation
\* left; random() returns some of a few pixels, lit and unlit
\* ------------------------------------------------------------------------
DissolvePixels == {<<0, 0>>, <<1, 0>>}
DissolvePauses == {1, 65}

InitDissolve ==
    /\ display_buffer \in {matrix_fill_buffer(255),
                           matrix_draw_text(matrix_fill_buffer(0), Msg(MaxMsgLen), MaxMsgLen,
                                            DT_ALIGN_LEFT, DT_STYLE_NORMAL)}
    /\ Idle
    /\ clock \in StartClocks
    /\ cadence = 10
    /\ saved = BlankBuffer
    /\ probe = NoProbe

StartDissolve ==
    /\ starts = 0
    /\ \E pause_interval \in DissolvePauses, msg \in {Msg(MaxMsgLen)} :
          StartAnimation(15, DEF_ANIM_SPEED, pause_interval, msg)

\* do_animation called while fetch_next_msg is false, random() returning one
\* of rnds
TickWith(rnds) ==
    /\ fetch_next_msg = FALSE
    /\ \E d \in TailDelays, rnd \in rnds :
       \E l_millis \in {ULongAdd(clock, cadence)} :
       \E tail_millis \in {ULongAdd(l_millis, d)} :
       \E r \in {do_animation(msg_context, display_buffer, fetch_next_msg,
                               l_millis, tail_millis, rnd)} :
              /\ msg_context' = r.c
              /\ display_buffer' = r.b
              /\ fetch_next_msg' = r.f
              /\ clock' = l_millis
              /\ call' = [op |-> "tick", empty |-> FALSE, ret |-> r.ret,
                          done |-> r.done, tail |-> r.tail, ev |-> r.ev,
                          l_millis |-> l_millis,
                          tail_millis |-> IF r.ret THEN l_millis ELSE tail_millis]
              /\ count' = [e \in Events |-> count[e] + (IF e \in r.ev THEN 1 ELSE 0)]
    /\ UNCHANGED <<cadence, starts, args, saved, probe>>

DissolveTick == TickWith(DissolvePixels)

NextDissolve == StartDissolve \/ DissolveTick

SpecDissolve == InitDissolve /\ [][NextDissolve]_vars

\* the bits (row, zone, bit) in which two buffers differ
DiffBits(a, b) ==
    UNION {UNION {{<<r, z, i>> : i \in {n \in 0 .. 7 : bitRead(a[r][z], n) # bitRead(b[r][z], n)}} :
                     z \in {zone \in Zones : a[r][zone] # b[r][zone]}} :
              r \in {row \in Rows : a[row] # b[row]}}

\* C24: in routine 15 each of the first 6000 do_animation calls clears at most
\* one pixel, sets none, adds one to the sub-state and does not set the
\* completion flag; the 6001st call clears the buffer and draws the message;
\* every later call leaves the buffer as it is, so the message is drawn once.
C24_DissolveThenDraw ==
    [][(TickStep /\ msg_context.routine = 15) =>
           /\ msg_context.state = count["dissolve"] + count["draw"]
           /\ msg_context.state < DISSOLVE_TICKS =>
                  /\ \E diff \in {DiffBits(display_buffer, display_buffer')} :
                         /\ Cardinality(diff) <= 1
                         /\ \A t \in diff : bitRead(display_buffer'[t[1]][t[2]], t[3]) = 0
                  /\ msg_context'.state = msg_context.state + 1
                  /\ ~fetch_next_msg'
           /\ msg_context.state = DISSOLVE_TICKS =>
                  /\ display_buffer' =
                         matrix_draw_text(BlankBuffer, args.msg, Len(args.msg),
                                          DT_ALIGN_LEFT, DT_STYLE_NORMAL)
                  /\ msg_context'.state = DISSOLVE_TICKS + 1
           /\ msg_context.state > DISSOLVE_TICKS =>
                  /\ display_buffer' = display_buffer
                  /\ msg_context'.state = msg_context.state
                  /\ count'["draw"] = 1]_vars

\* a call after the 6001st: the message stands, drawn once, after 6000
\* dissolve calls of which some cleared a lit pixel
C24_Witness ==
    /\ Armed /\ msg_context.routine = 15
    /\ call.op = "tick" /\ call.ev = {}
    /\ msg_context.state = DISSOLVE_TICKS + 1
    /\ count["dissolve"] = DISSOLVE_TICKS /\ count["draw"] = 1
    /\ display_buffer = matrix_draw_text(BlankBuffer, args.msg, Len(args.msg),
                                         DT_ALIGN_LEFT, DT_STYLE_NORMAL)

\* C25 as stated: in routines 17 and 18 the buffer is not rotated until more
\* than 2000 ms after the centered draw, then rotated by one column exactly
\* COLUMNS times, each more than 90 ms after the step before, and never
\* again; the completion flag is not set before the COLUMNS-th rotation.
C25_RollOnce ==
    [][(TickStep /\ msg_context.routine \in {17, 18}) =>
           /\ count'["rotate"] <= MATRIX_COLUMNS
           /\ fetch_next_msg' => count'["rotate"] = MATRIX_COLUMNS
           /\ "state" \in call'.ev =>
                  /\ ULongGT(Elapsed(msg_context, call'.l_millis), 2000)
                  /\ display_buffer' = display_buffer
           /\ "rotate" \in call'.ev =>
                  /\ count["state"] = 1
                  /\ ULongGT(Elapsed(msg_context, call'.l_millis), 90)
                  /\ display_buffer' =
                         matrix_rotate_buffer(display_buffer,
                                              IF msg_context.routine = 17
                                              THEN DIRECTION_LEFT ELSE DIRECTION_RIGHT)
           /\ call'.ev \cap {"rotate", "draw"} = {} => display_buffer' = display_buffer]_vars

\* ------------------------------------------------------------------------
\* The row scrolls with the default pause interval and a short one
\* ------------------------------------------------------------------------
RowPauses == {1, DEF_PAUSE_INTERVAL}

StartRows ==
    /\ starts = 0
    /\ \E routine \in {11, 12}, animation_speed \in Speeds,
          pause_interval \in RowPauses, msg \in Messages :
          StartAnimation(routine, animation_speed, pause_interval, msg)

NextRows == StartRows \/ DoAnimation

SpecRows == Init /\ [][NextRows]_vars

\* C26 as stated: in routines 11 and 12 the buffer is shifted by one row
\* exactly 8 times, each shift more than 400 + speed * 100 ms after the step
\* before; the next crossing of the threshold draws the centered text onto
\* the blank buffer and sets the sub-state to 1; afterwards no call shifts or
\* redraws the buffer.
C26_EightRowShifts ==
    [][(TickStep /\ msg_context.routine \in {11, 12}) =>
           /\ "rowshift" \in call'.ev =>
                  /\ count["rowshift"] < 8
                  /\ msg_context.state = 0
                  /\ ULongGT(Elapsed(msg_context, call'.l_millis),
                             400 + (args.animation_speed * 100))
                  /\ display_buffer' =
                         matrix_shift_buffer(display_buffer,
                                             IF msg_context.routine = 11
                                             THEN DIRECTION_UP ELSE DIRECTION_DOWN)
           /\ "draw" \in call'.ev =>
                  /\ count["rowshift"] = 8
                  /\ ULongGT(Elapsed(msg_context, call'.l_millis),
                             400 + (args.animation_speed * 100))
                  /\ display_buffer = BlankBuffer
                  /\ display_buffer' =
                         matrix_draw_text(BlankBuffer, args.msg, Len(args.msg),
                                          DT_ALIGN_CENTER, DT_STYLE_NORMAL)
                  /\ msg_context.state = 0 /\ msg_context'.state = 1
           /\ call'.ev \cap {"rowshift", "draw"} = {} => display_buffer' = display_buffer
           /\ msg_context.state # 0 =>
                  /\ call'.ev = {}
                  /\ msg_context'.state = msg_context.state]_vars

\* C27: loop() calls do_animation only while fetch_next_msg is false and
\* start_animation only while it is true; a start with an empty message
\* leaves the flag true, so do_animation is never called on an engine whose
\* msg_length is 0, and the step after an empty start is the next start.
C27_NoTickUnarmed ==
    [][/\ TickStep => (~fetch_next_msg /\ msg_context.msg_length > 0)
       /\ StartStep => fetch_next_msg
       /\ (StartStep /\ call'.empty) => (fetch_next_msg' /\ msg_context'.msg_length = 0)
       /\ (call.op = "start" /\ call.empty) => (StartStep /\ ~TickStep)]_vars

\* the second start follows an empty first start at once: no call of
\* do_animation has moved the clock in between
C27_Witness ==
    /\ starts = 2
    /\ call.op = "start" /\ ~call.empty
    /\ call.l_millis = ULong(5000)
    /\ ~fetch_next_msg /\ msg_context.msg_length > 0

\* C28 as stated: after routine 19 has handed over to routine 0, the smooth
\* scroll shifts in every character of the message, beginning with character
\* 0 at font column 0, whatever the call intervals of the pac-man phase were.
C28_ScrollFromFirstChr ==
    [][(TickStep /\ args.routine = 19 /\ msg_context.routine = 0) =>
           /\ "shiftin" \in call'.ev =>
                  /\ msg_context.state = count["shiftin"] \div FONT_PITCH
                  /\ msg_context.tmp_1 = count["shiftin"] % FONT_PITCH
           /\ fetch_next_msg' => count'["shiftin"] = FONT_PITCH * Len(args.msg)]_vars

\* C29 as stated: for routines 0, 1, 13, 14, 16, 17, 18 and 19 the first-tick
\* initialisation runs on the first do_animation call after start_animation
\* and on no later call of the same animation, whatever millis() returns.
C29_InitOnce ==
    (Armed /\ args.routine \in {0, 1, 13, 14, 16, 17, 18, 19}) =>
        /\ count["init"] <= 1
        /\ call.op = "tick" => count["init"] = 1

\* ------------------------------------------------------------------------
\* Every routine run to its end: loop() keeps calling do_animation while
\* fetch_next_msg is false, and millis() advances by cadence between calls
\* ------------------------------------------------------------------------
LiveSpeeds == {0, 10}
LivePauses == {1, 66}
LiveMessages == {Msg(1), LongMsg}

InitLive ==
    /\ display_buffer = matrix_fill_buffer(0)
    /\ Idle
    /\ clock \in StartClocks
    /\ cadence \in {10, 1000}
    /\ saved = BlankBuffer
    /\ probe = NoProbe

\* the dissolve and the random routine are started with the default speed
StartLive ==
    /\ starts = 0
    /\ \/ \E routine \in (0 .. 14) \cup (16 .. 19), animation_speed \in LiveSpeeds,
             pause_interval \in LivePauses, msg \in LiveMessages :
             StartAnimation(routine, animation_speed, pause_interval, msg)
       \/ \E routine \in {15, 20}, pause_interval \in LivePauses, msg \in LiveMessages :
             StartAnimation(routine, DEF_ANIM_SPEED, pause_interval, msg)

\* what random() may return to the routine about to run
LiveRnd(c) ==
    CASE c.routine = 15 -> DissolvePixels
      [] c.routine = 20 -> 0 .. 19
      [] OTHER -> {0}

LiveTick == TickWith(LiveRnd(msg_context))

NextLive == StartLive \/ LiveTick

\* LiveTick is the only step that changes the clock, and it can be taken
\* exactly when fetch_next_msg is false: loop() never stops calling
\* do_animation while the flag is false
ClockAdvances == fetch_next_msg = FALSE /\ clock' = ULongAdd(clock, cadence)

SpecLive == InitLive /\ [][NextLive]_vars /\ WF_clock(ClockAdvances)

C31_IntervalExact ==
    starts > 0 => msg_context.interval = args.pause_interval * 1000

\* what the code stores: the product modulo 2^16, which is the pause in
\* milliseconds only up to 65 seconds
IntervalIsWrappedProduct ==
    starts > 0 =>
        /\ msg_context.interval = (args.pause_interval * 1000) % UINT_MOD
        /\ (args.pause_interval <= 65 => msg_context.interval = args.pause_interval * 1000)

\* ------------------------------------------------------------------------
\* The sliding characters
\* ------------------------------------------------------------------------
\* started 4500 ms before millis() wraps, a run called every 150 ms reads 0
\* on its 30th call, when the second character is on its way
SlideClocks == {ULong(5000), ULongSub(ULong(0), ULong(4500))}

InitSlide ==
    /\ display_buffer \in {matrix_fill_buffer(0), matrix_fill_buffer(255)}
    /\ Idle
    /\ clock \in SlideClocks
    /\ cadence \in Cadences
    /\ saved = BlankBuffer
    /\ probe = NoProbe

StartSlide ==
    /\ starts = 0
    /\ \E animation_speed \in Speeds, pause_interval \in RowPauses, msg \in Messages :
          StartAnimation(16, animation_speed, pause_interval, msg)

NextSlide == StartSlide \/ DoAnimation

SpecSlide == InitSlide /\ [][NextSlide]_vars

\* the number of characters routine 16 places
SlideChrs(c) == IF c.msg_length >= MATRIX_MAX_CHRS THEN MATRIX_MAX_CHRS ELSE c.msg_length

\* a blank buffer with the first n characters drawn from column 0 on, one
\* every FONT_PITCH columns
PlacedChrs(text, n) == DrawTextFrom(BlankBuffer, text, n, DT_STYLE_NORMAL, 0, 0)

\* all characters have been placed
SlideDone == Armed /\ msg_context.routine = 16 /\ msg_context.state = SlideChrs(msg_context)

\* C32 as stated: in routine 16, once all n = min(L, MATRIX_MAX_CHRS)
\* characters have been placed (sub-state = n), the buffer is exactly a blank
\* buffer with the first n characters of the message drawn left-aligned,
\* character i at column i * FONT_PITCH.
C32_SlidePlacesAll ==
    SlideDone => display_buffer = PlacedChrs(args.msg, SlideChrs(msg_context))

\* the same, for the runs whose first-tick initialisation ran once
SlidePlacesAllInitOnce ==
    (SlideDone /\ count["init"] = 1) =>
        display_buffer = PlacedChrs(args.msg, SlideChrs(msg_context))

\* a complete slide of more characters than one, initialised once
SlideDoneInitOnce ==
    /\ SlideDone /\ count["init"] = 1 /\ SlideChrs(msg_context) = MATRIX_MAX_CHRS
    /\ count["slide"] = (MATRIX_MAX_CHRS * (MATRIX_MAX_CHRS + 1)) \div 2

====
